---- MODULE Spec2Model ----
(***************************************************************************)
(* Model of bili_downloader.                                               *)
(* The download core (src/src/downloader/core.rs): the semaphore-gated     *)
(* add_task, the task table, the task runner `run`, the BinaryStream retry *)
(* loop (download_binary_stream) and one attempt with byte-range resume    *)
(* (download_with_resume), together with the remote server and the         *)
(* destination files they act on.                                          *)
(* The front end: main (src/src/main.rs) driving VideoDownloader           *)
(* (src/src/downloader/mod.rs), the HTTP client                            *)
(* (src/src/common/client/client.rs), the signing helper                   *)
(* (src/src/common/wbi_utils.rs) and the resolvers                         *)
(* (src/src/parser/detail_parser).                                         *)
(***************************************************************************)
EXTENDS Integers, Sequences, FiniteSets, TLC

VARIABLES
    max_concurrent, \* DownloadCore::new(max_concurrent, ..): size of the semaphore
    calls,          \* add_task invocations: position, probe answers, result
    items,          \* per call: the work item, its remote resource and the network
    tasks,          \* the task table: task_id -> DownloadProgress
    run,            \* per task: locals of run / download_binary_stream / download_with_resume
    files,          \* per call: the destination file (output_path)
    log,            \* per task: results of the attempts made so far (history)
    faults,         \* per call: stream interruptions injected by the network so far
    main,           \* main and VideoDownloader::download: position, results, exit code
    http,           \* one operation of BiliClient: requests sent, answers, result
    wbi,            \* calls of the signing helper: inputs, clock, signed query
    parser,         \* one call of a resolver function: input and result
    auth,           \* the session store and one operation of the authentication
    post            \* one run of the post-processor: its tasks, groups and outcome

core == <<max_concurrent, calls, items, tasks, run, files, log, faults>>

front == <<main, http, wbi, parser, auth, post>>

vars == <<max_concurrent, calls, items, tasks, run, files, log, faults,
          main, http, wbi, parser, auth, post>>

----------------------------------------------------------------------------
(* Bounds of the model *)

MaxTasks == 2        \* add_task calls (and uuid values) in the pool scenarios
MaxConcurrent == 2   \* largest semaphore size tried
MaxLen == 3          \* largest resource (bytes) in the short scenarios
MaxChunk == 2        \* largest chunk (bytes) the stream yields in the short scenarios
LongLen == 51        \* resource of the long scenario (one byte per chunk)
LongFaults == 1      \* stream interruptions in the long scenario
IgnoredFaults == 2   \* stream interruptions against a server that ignores Range
PoolFaults == 1      \* stream interruptions per item in the pool scenarios
PoolLen == 1         \* resource length in the pool scenarios
MaxSignCalls == 2    \* calls of the signing helper in one scenario
MaxParams == 1       \* caller's parameters of a signed request
MaxClock == 10       \* last second of the clock
MaxRangeLen == 4     \* length of the strings given to the range parser
MaxStreams == 3      \* length of the stream lists given to the selectors
MaxDashStreams == 1  \* length of the two stream lists of a dash response
MaxSessions == 2     \* sessions in the store before the operation
MaxPolls == 3        \* budget of polls of a QR login
MaxEpisodes == 2     \* episodes of a season that are post-processed
MaxSeasonLen == 3    \* episodes of the array of a season that is resolved

(* Program constants *)

MAX_RETRIES == 20         \* core.rs:279
PROGRESS_INTERVAL == 50   \* core.rs:576
PROBE_RANGE == 1024       \* core.rs:1062  Range: bytes=0-1023
MAIN_CONCURRENCY == 4     \* main.rs:247  VideoDownloader::new(4, ..)
DEFAULT_CONCURRENCY == 3  \* cli.rs:167  default_value_t = 3
MIXIN_KEY_LEN == 32       \* wbi_utils.rs:22  .take(32)
BV_ID_LEN == 10           \* url_parser.rs:100  [0-9A-Za-z]{10}

\* data.code of a login poll: logged in, expired, scanned, waiting, another
QrCodes == {0, 86038, 86090, 86101, 86039}

\* envelope codes of the platform: success, VIP gate, video private
EnvelopeCodes == {-10403, 0, 62002}

----------------------------------------------------------------------------
(* Types *)

TaskIds == 1..MaxTasks

FileTypes == {"Video", "Audio", "Danmaku", "Image"}

Terminal == {"Completed", "Failed", "Skipped", "Error"}

Refusals == {401, 403, 429}

\* the bytes of a remote resource of length len: byte i has value i
Source(len) == [i \in 1..len |-> i]

Min(a, b) == IF a < b THEN a ELSE b

\* DownloadStrategy::for_file_type
for_file_type(file_type) ==
    CASE file_type \in {"Video", "Audio", "Other"} -> "BinaryStream"
      [] file_type \in {"Danmaku", "Subtitle"} -> "TextContent"
      [] OTHER -> "Image"

\* StatusCode::is_success
is_success(status) == status >= 200 /\ status <= 299

\* DownloadCore::check_response_status; status 0 is never passed
check_response_status(status) ==
    CASE status \in {200, 206} -> "Ok"
      [] status \in {403, 429, 401} -> "RateLimited"
      [] status \in {416, 404} -> "InvalidState"
      [] is_success(status) -> "Ok"
      [] OTHER -> "InvalidState"

----------------------------------------------------------------------------
(* Size probe *)

\* answers the server can give to the HEAD probe; status 0: the request
\* could not be sent. html: Content-Type contains text/html; length:
\* Content-Length present and numeric. The headers of a refused probe are
\* not read.
HeadAnswers ==
    [status : {200}, html : BOOLEAN, length : BOOLEAN]
    \cup [status : {0, 401, 403, 404, 405, 429, 500}, html : {FALSE}, length : {FALSE}]

\* answers to the fallback GET with Range: bytes=0-1023. range: Content-Range
\* absent ("none"), bytes X-Y/TOTAL ("total") or bytes X-Y/* ("star")
GetAnswers ==
    [status : {200, 206}, html : BOOLEAN, range : {"total", "star"}, length : {FALSE}]
    \cup [status : {200, 206}, html : BOOLEAN, range : {"none"}, length : BOOLEAN]
    \cup [status : {0, 401, 403, 429, 500}, html : {FALSE}, range : {"none"}, length : {FALSE}]

\* the fallback GET was not issued
NoGet == [status |-> -1, html |-> FALSE, range |-> "none", length |-> FALSE]

\* get_content_info_via_get: <<result, content_type is html, content_length or -1>>
get_content_info_via_get(len, get) ==
    IF get.status = 0 THEN <<"HttpError", FALSE, -1>>
    ELSE IF get.status \in {200, 206} THEN
        <<"Ok", get.html,
          IF get.range = "total" THEN len
          ELSE IF get.range = "star" THEN -1
          ELSE IF get.length
               THEN (IF get.status = 206 THEN Min(len, PROBE_RANGE) ELSE len)
               ELSE -1>>
    ELSE IF get.status = 403 THEN <<"RateLimited", FALSE, -1>>
    ELSE <<"InvalidState", FALSE, -1>>

\* get_content_info: HEAD, falling back to the ranged GET on 404/405
get_content_info(len, head, get) ==
    IF head.status = 0 THEN <<"HttpError", FALSE, -1>>
    ELSE IF head.status \in {404, 405} THEN get_content_info_via_get(len, get)
    ELSE IF head.status = 403 THEN <<"RateLimited", FALSE, -1>>
    ELSE IF head.status = 429 THEN <<"RateLimited", FALSE, -1>>
    ELSE IF ~is_success(head.status) THEN <<"InvalidState", FALSE, -1>>
    ELSE <<"Ok", head.html, IF head.length THEN len ELSE -1>>

\* add_task, lines 63-87: total_size from the content info, or InvalidUrl
TotalSizeOf(file_type, info) ==
    IF for_file_type(file_type) = "BinaryStream" /\ info[2]
    THEN <<"InvalidUrl", 0>>
    ELSE <<"Ok", IF info[3] >= 0 THEN info[3] ELSE 0>>

----------------------------------------------------------------------------
(* add_task *)

\* variant of permits: the permit of a call that returned an error is kept
permits_leaking ==
    max_concurrent
    - Cardinality({c \in DOMAIN calls :
                      \/ calls[c].pc = "acquired"
                      \/ calls[c].pc = "returned" /\ calls[c].result # "Ok"})

permits == max_concurrent - Cardinality({c \in DOMAIN calls : calls[c].pc = "acquired"})

\* add_task, lines 47-52: take a permit of the semaphore
AddTaskAcquire(c) ==
    /\ calls[c].pc = "idle"
    /\ permits > 0
    /\ calls' = [calls EXCEPT ![c].pc = "acquired"]
    /\ UNCHANGED <<max_concurrent, items, tasks, run, files, log, faults>>

\* variant of NewTask: the record is created already marked Downloading
NewTaskStarted(c, total_size) ==
    [call |-> c, total_size |-> total_size, downloaded |-> 0, status |-> "Downloading"]

\* DownloadProgress as add_task builds it (lines 89-96)
NewTask(c, total_size) ==
    [call |-> c, total_size |-> total_size, downloaded |-> 0, status |-> "Queued"]

\* locals of the runner spawned for a task
NewRun(c) ==
    [pc |-> "spawned", file_type |-> items[c].file_type,
     start_pos |-> 0, attempt |-> 0, downloaded |-> 0, chunk_count |-> 0,
     range |-> -1, status |-> 0, append |-> FALSE,
     off |-> 0, result |-> "none", ret |-> "none"]

\* variant of Register: the contains_key check is missing, the insert replaces
RegisterUnchecked(id, task) ==
    <<"Ok", [i \in DOMAIN tasks \cup {id} |-> IF i = id THEN task ELSE tasks[i]]>>

\* add_task, lines 98-104: the table after the insert, or the error
Register(id, task) ==
    IF id \in DOMAIN tasks
    THEN <<"TaskAlreadyExists", tasks>>
    ELSE <<"Ok", tasks @@ (id :> task)>>

\* history: the refusal status (401, 403, 429) the probe of a call met, or 0
Refused(head, get) ==
    IF head.status \in Refusals THEN head.status
    ELSE IF get.status \in Refusals THEN get.status
    ELSE 0

\* history: the header the registered total_size was read from
SizeFrom(head, get) ==
    IF get.status = -1 THEN (IF head.length THEN "head" ELSE "none")
    ELSE IF get.range = "total" THEN "range"
    ELSE IF get.range = "none" /\ get.length THEN "length"
    ELSE "none"

\* add_task, lines 54-123, for one answer of the server and one uuid
AddTaskReturn(c, head, get, id) ==
    LET info == get_content_info(items[c].len, head, get)
        size == TotalSizeOf(items[c].file_type, info)
        reg == Register(id, NewTask(c, size[2]))
        res == IF info[1] # "Ok" THEN info[1]
               ELSE IF size[1] # "Ok" THEN size[1]
               ELSE reg[1]
    IN  /\ calls' = [calls EXCEPT ![c] =
               [pc |-> "returned", result |-> res,
                task_id |-> IF res = "Ok" THEN id ELSE 0,
                refused |-> Refused(head, get),
                size_from |-> IF res = "Ok" THEN SizeFrom(head, get) ELSE "none"]]
        /\ IF res = "Ok"
           THEN /\ tasks' = reg[2]
                /\ run' = run @@ (id :> NewRun(c))
                /\ log' = log @@ (id :> <<>>)
           ELSE UNCHANGED <<tasks, run, log>>

\* add_task, lines 54-123: probe, register, spawn the runner, return
\* (the permit is dropped on every return)
AddTaskFinish(c) ==
    /\ calls[c].pc = "acquired"
    /\ \E head \in items[c].heads, id \in DOMAIN items :
        IF head.status \in {404, 405}
        THEN \E get \in GetAnswers : AddTaskReturn(c, head, get, id)
        ELSE AddTaskReturn(c, head, NoGet, id)
    /\ UNCHANGED <<max_concurrent, items, files, faults>>

----------------------------------------------------------------------------
(* The task runner *)

\* run, lines 144-167: the spawned runner marks its task Downloading
RunStart(id) ==
    /\ run[id].pc = "spawned"
    /\ tasks' = [tasks EXCEPT ![id].status = "Downloading"]
    /\ run' = [run EXCEPT ![id].pc =
           IF for_file_type(run[id].file_type) = "BinaryStream" THEN "begin" ELSE "fetch"]
    /\ UNCHANGED <<max_concurrent, calls, items, files, log, faults>>

\* length of the destination file, 0 if it does not exist (lines 238-248)
FileLen(c) == IF files[c].exists THEN Len(files[c].data) ELSE 0

\* download_binary_stream, lines 256-260: the file is already complete
AlreadyComplete(start_pos, total_size) == start_pos >= total_size /\ total_size > 0

\* download_binary_stream, lines 235-281: read the length of a partial file,
\* return at once if it is complete, else enter the retry loop
BinaryBegin(id) ==
    LET c == tasks[id].call
        start_pos == FileLen(c)
    IN  /\ run[id].pc = "begin"
        /\ run' = [run EXCEPT ![id] =
               IF AlreadyComplete(start_pos, tasks[id].total_size)
               THEN [@ EXCEPT !.pc = "finish", !.start_pos = start_pos, !.ret = "Ok"]
               ELSE [@ EXCEPT !.pc = "request", !.start_pos = start_pos, !.attempt = 1]]
        /\ UNCHANGED <<max_concurrent, calls, items, tasks, files, log, faults>>

\* variant of should_use_range: a Range header only when resuming
should_use_range_resuming(start_pos, file_type) == start_pos > 0

\* download_with_resume, line 410
should_use_range(start_pos, file_type) == start_pos > 0 \/ file_type = "Audio"

\* the Range header of the request: bytes=<n>-, or -1 for no header (lines 412-429)
RangeHeader(start_pos, file_type) ==
    IF should_use_range(start_pos, file_type) THEN start_pos ELSE -1

\* the status a healthy server answers: one that honours Range answers 206
\* (416 past the end), one that ignores it answers 200 with the whole body
ServerStatus(item, range) ==
    IF range >= 0 /\ item.ranges
    THEN (IF range >= item.len THEN 416 ELSE 206)
    ELSE 200

\* the offset in the resource of the first byte of the body
BodyStart(status, range) == IF status = 206 THEN range ELSE 0

\* download_with_resume, lines 482-496: append when resuming, else truncate
OpenFile(file, start_pos) ==
    IF start_pos > 0
    THEN [exists |-> TRUE, data |-> IF file.exists THEN file.data ELSE <<>>]
    ELSE [exists |-> TRUE, data |-> <<>>]

\* download_with_resume, lines 398-504: send the request, check the status,
\* open the destination
Request(id) ==
    LET c == tasks[id].call
        r == run[id]
        range == RangeHeader(r.start_pos, r.file_type)
    IN  /\ r.pc = "request"
        /\ \E status \in items[c].statuses \cup {ServerStatus(items[c], range)},
              opened \in BOOLEAN :
            LET checked == IF status = 0 THEN "HttpError"
                           ELSE check_response_status(status)
            IN  /\ checked = "Ok" \/ opened
                /\ IF checked # "Ok"
                   THEN /\ run' = [run EXCEPT ![id] =
                               [@ EXCEPT !.pc = "matched", !.range = range,
                                         !.status = status, !.result = checked]]
                        /\ UNCHANGED files
                   ELSE IF ~opened
                   THEN /\ run' = [run EXCEPT ![id] =
                               [@ EXCEPT !.pc = "matched", !.range = range,
                                         !.status = status, !.result = "IoError"]]
                        /\ UNCHANGED files
                   ELSE /\ run' = [run EXCEPT ![id] =
                               [@ EXCEPT !.pc = "stream", !.range = range,
                                         !.status = status, !.append = r.start_pos > 0,
                                         !.off = BodyStart(status, range),
                                         !.downloaded = r.start_pos,
                                         !.chunk_count = 0]]
                        /\ files' = [files EXCEPT ![c] = OpenFile(@, r.start_pos)]
        /\ UNCHANGED <<max_concurrent, calls, items, tasks, log, faults>>

\* variant of Verdict: the completeness of the download is not verified
VerdictUnverified(downloaded, total_size) == "Ok"

\* download_with_resume, lines 603-622: the verdict on an attempt whose
\* stream ended
Verdict(downloaded, total_size) ==
    IF total_size > 0 /\ downloaded < total_size THEN "StreamError" ELSE "Ok"

\* download_with_resume, lines 592-622 after the loop: flush, store the
\* progress, verify completeness
AfterLoop(id, r, flushed) ==
    IF flushed
    THEN /\ tasks' = [tasks EXCEPT ![id].downloaded = r.downloaded]
         /\ run' = [run EXCEPT ![id] =
                [r EXCEPT !.pc = "matched",
                          !.result = Verdict(r.downloaded, tasks[id].total_size)]]
    ELSE /\ run' = [run EXCEPT ![id] = [r EXCEPT !.pc = "matched", !.result = "IoError"]]
         /\ UNCHANGED tasks

\* download_with_resume, lines 575-580: the record is refreshed every 50 chunks
ProgressDue(chunk_count) == chunk_count % PROGRESS_INTERVAL = 0

\* download_with_resume, lines 582-589: the expected size is reached
SizeReached(downloaded, total_size) == total_size > 0 /\ downloaded >= total_size

\* download_with_resume, lines 506-590: one chunk arrives and is written
Chunk(id) ==
    LET c == tasks[id].call
        r == run[id]
    IN  /\ r.pc = "stream"
        /\ \E n \in 1..Min(items[c].chunk, items[c].len - r.off) :
            LET downloaded == r.downloaded + n
                chunk_count == r.chunk_count + 1
                r2 == [r EXCEPT !.downloaded = downloaded,
                                !.chunk_count = chunk_count, !.off = r.off + n]
            IN  /\ files' = [files EXCEPT ![c].data =
                       @ \o SubSeq(Source(items[c].len), r.off + 1, r.off + n)]
                /\ IF SizeReached(downloaded, tasks[id].total_size)
                   THEN \E flushed \in BOOLEAN : AfterLoop(id, r2, flushed)
                   ELSE /\ run' = [run EXCEPT ![id] = r2]
                        /\ tasks' = IF ProgressDue(chunk_count)
                                    THEN [tasks EXCEPT ![id].downloaded = downloaded]
                                    ELSE tasks
        /\ UNCHANGED <<max_concurrent, calls, items, log, faults>>

\* download_with_resume, lines 513-537 and 549-551: the 60 s chunk timeout
\* or a stream error (StreamError), or a failed write (IoError)
StreamFault(id) ==
    LET c == tasks[id].call
    IN  /\ run[id].pc = "stream"
        /\ \E e \in {"StreamError", "IoError"} :
            /\ e = "StreamError" => faults[c] < items[c].faults
            /\ run' = [run EXCEPT ![id] = [@ EXCEPT !.pc = "matched", !.result = e]]
            /\ faults' = IF e = "StreamError" THEN [faults EXCEPT ![c] = @ + 1] ELSE faults
        /\ UNCHANGED <<max_concurrent, calls, items, tasks, files, log>>

\* download_with_resume, lines 538-545 and 592-622: the stream ends (None):
\* the whole body was delivered, or the server closed it early
StreamEnd(id) ==
    LET c == tasks[id].call
        r == run[id]
        early == r.off < items[c].len
    IN  /\ r.pc = "stream"
        /\ early => faults[c] < items[c].faults
        /\ \E flushed \in BOOLEAN : AfterLoop(id, r, flushed)
        /\ faults' = IF early THEN [faults EXCEPT ![c] = @ + 1] ELSE faults
        /\ UNCHANGED <<max_concurrent, calls, items, files, log>>

\* variant of Retryable: the attempt bound is off by one
RetryableOnceMore(result, attempt) == result = "StreamError" /\ attempt <= MAX_RETRIES

\* download_binary_stream, line 302: the guard of the retry arm
Retryable(result, attempt) == result = "StreamError" /\ attempt < MAX_RETRIES

\* variant of RetryStartPos: the retry starts over instead of resuming
RetryFromScratch(c, start_pos) == 0

\* download_binary_stream, lines 304-325: the resume position of the next attempt
RetryStartPos(c, start_pos) == IF files[c].exists THEN Len(files[c].data) ELSE start_pos

\* download_binary_stream, lines 282-381: the match on the result of an attempt
AttemptEnd(id) ==
    LET c == tasks[id].call
        r == run[id]
    IN  /\ r.pc = "matched"
        /\ log' = [log EXCEPT ![id] = Append(@, r.result)]
        /\ run' = [run EXCEPT ![id] =
               IF r.result = "Ok" THEN [r EXCEPT !.pc = "finish", !.ret = "Ok"]
               ELSE IF Retryable(r.result, r.attempt)
               THEN [r EXCEPT !.pc = "request", !.attempt = r.attempt + 1,
                              !.start_pos = RetryStartPos(c, r.start_pos)]
               ELSE [r EXCEPT !.pc = "finish", !.ret = r.result]]
        /\ UNCHANGED <<max_concurrent, calls, items, tasks, files, faults>>

\* download_text_content and download_image: fetch the whole body, check the
\* status, decode and write it
Fetch(id) ==
    LET c == tasks[id].call
    IN  /\ run[id].pc = "fetch"
        /\ \E status \in items[c].statuses \cup {200},
              e \in {"Ok", "HttpError", "InvalidState", "IoError"} :
            LET checked == IF status = 0 THEN "InvalidState"
                           ELSE check_response_status(status)
                result == IF checked # "Ok" THEN checked ELSE e
            IN  /\ checked = "Ok" \/ e = "Ok"
                /\ run' = [run EXCEPT ![id] =
                       [@ EXCEPT !.pc = "finish", !.attempt = 1, !.status = status,
                                 !.result = result, !.ret = result]]
                /\ log' = [log EXCEPT ![id] = Append(@, result)]
                /\ files' = IF result = "Ok"
                            THEN [files EXCEPT ![c] =
                                     [exists |-> TRUE, data |-> Source(items[c].len)]]
                            ELSE files
        /\ UNCHANGED <<max_concurrent, calls, items, tasks, faults>>

\* variant of FinalStatus: the RateLimited arm is missing
FinalStatusNoSkip(ret) ==
    CASE ret = "Ok" -> "Completed"
      [] OTHER -> "Error"

\* run, lines 203-222: the terminal status for the result of the download
FinalStatus(ret) ==
    CASE ret = "Ok" -> "Completed"
      [] ret = "RateLimited" -> "Skipped"
      [] OTHER -> "Error"

\* the runner has returned: its locals are gone
Returned(r) ==
    [pc |-> "done", file_type |-> r.file_type,
     start_pos |-> 0, attempt |-> 0, downloaded |-> 0, chunk_count |-> 0,
     range |-> -1, status |-> 0, append |-> FALSE,
     off |-> 0, result |-> "none", ret |-> r.ret]

\* run, lines 203-222: store the terminal status
RunFinish(id) ==
    /\ run[id].pc = "finish"
    /\ tasks' = [tasks EXCEPT ![id].status = FinalStatus(run[id].ret)]
    /\ run' = [run EXCEPT ![id] = Returned(run[id])]
    /\ UNCHANGED <<max_concurrent, calls, items, files, log, faults>>

----------------------------------------------------------------------------
(* Strings: a string is the sequence of its characters *)

\* the code points (ASCII) of the characters the scenarios use
CharCode ==
    " " :> 32 @@ "!" :> 33 @@ "#" :> 35 @@ "%" :> 37 @@ "&" :> 38 @@
    "'" :> 39 @@ "(" :> 40 @@ ")" :> 41 @@ "*" :> 42 @@ "+" :> 43 @@
    "," :> 44 @@ "-" :> 45 @@ "." :> 46 @@ "/" :> 47 @@ "0" :> 48 @@
    "1" :> 49 @@ "2" :> 50 @@ "3" :> 51 @@ "4" :> 52 @@ "5" :> 53 @@
    "6" :> 54 @@ "7" :> 55 @@ "8" :> 56 @@ "9" :> 57 @@ "=" :> 61 @@
    "A" :> 65 @@ "B" :> 66 @@ "C" :> 67 @@ "D" :> 68 @@ "E" :> 69 @@
    "F" :> 70 @@ "_" :> 95 @@ "a" :> 97 @@ "b" :> 98 @@ "c" :> 99 @@
    "d" :> 100 @@ "e" :> 101 @@ "f" :> 102 @@ "i" :> 105 @@ "k" :> 107 @@
    "p" :> 112 @@ "r" :> 114 @@ "s" :> 115 @@ "t" :> 116 @@ "w" :> 119 @@
    "x" :> 120 @@ "z" :> 122 @@ "~" :> 126

DigitChars == <<"0", "1", "2", "3", "4", "5", "6", "7", "8", "9">>

IsDigit(c) == \E d \in 1..10 : DigitChars[d] = c

DigitValue(c) == (CHOOSE d \in 1..10 : DigitChars[d] = c) - 1

\* str::cmp: byte-wise lexicographic order
RECURSIVE StrLess(_, _)
StrLess(s, t) ==
    IF t = <<>> THEN FALSE
    ELSE IF s = <<>> THEN TRUE
    ELSE IF CharCode[Head(s)] # CharCode[Head(t)] THEN CharCode[Head(s)] < CharCode[Head(t)]
    ELSE StrLess(Tail(s), Tail(t))

\* i64::to_string of a number that is not negative
RECURSIVE to_string(_)
to_string(n) ==
    IF n < 10 THEN <<DigitChars[n + 1]>>
    ELSE to_string(n \div 10) \o <<DigitChars[(n % 10) + 1]>>

\* the concatenation of a sequence of strings
RECURSIVE Concat(_)
Concat(ss) == IF ss = <<>> THEN <<>> ELSE Head(ss) \o Concat(Tail(ss))

----------------------------------------------------------------------------
(* The signing helper (src/src/common/wbi_utils.rs) *)

\* wbi_utils.rs, lines 7-11
MIXIN_KEY_ENC_TAB ==
    <<46, 47, 18, 2, 53, 8, 23, 32, 15, 50, 10, 31, 58, 3, 45, 35, 27, 43, 5, 49,
      33, 9, 42, 19, 29, 28, 14, 39, 12, 38, 41, 13, 37, 48, 7, 16, 24, 55, 40,
      61, 26, 17, 0, 1, 60, 51, 30, 4, 22, 25, 54, 21, 56, 59, 6, 63, 57, 62, 11,
      36, 20, 34, 44, 52>>

\* get_mixin_key, lines 17-24: the characters of img_key + sub_key at the
\* positions of the table, as far as they exist, at most 32 of them
get_mixin_key(img_key, sub_key) ==
    LET orig == img_key \o sub_key
        InOrig(i) == i < Len(orig)
        picks == SelectSeq(MIXIN_KEY_ENC_TAB, InOrig)
        taken == SubSeq(picks, 1, Min(Len(picks), MIXIN_KEY_LEN))
    IN  [n \in 1..Len(taken) |-> orig[taken[n] + 1]]

\* enc_wbi, line 39: the characters removed from every value
FilteredChars == {"!", "'", "(", ")", "*"}

FilterValue(v) == LET Kept(c) == c \notin FilteredChars IN SelectSeq(v, Kept)

IsAlphanumeric(c) ==
    \/ CharCode[c] \in 48..57
    \/ CharCode[c] \in 65..90
    \/ CharCode[c] \in 97..122

UpperHexDigits ==
    <<"0", "1", "2", "3", "4", "5", "6", "7", "8", "9", "A", "B", "C", "D", "E", "F">>

\* % and the two hex digits of a byte
Percent(c) ==
    <<"%", UpperHexDigits[(CharCode[c] \div 16) + 1], UpperHexDigits[(CharCode[c] % 16) + 1]>>

\* urlencoding::encode of one character: the unreserved ones stay, the
\* others become % and two hex digits
EncodeChar(c) ==
    IF IsAlphanumeric(c) \/ c \in {"-", "_", ".", "~"} THEN <<c>> ELSE Percent(c)

\* urlencoding::encode
encode(str) == Concat([n \in 1..Len(str) |-> EncodeChar(str[n])])

\* a query string k1=v1&k2=v2..: the pairs of encoded key and encoded value
\* in the order they are joined (lines 45-48, 59-62)
Query(map, order) ==
    [n \in 1..Len(order) |-> <<encode(order[n]), encode(map[order[n]])>>]

\* the query as one string
QueryString(q) ==
    Concat([n \in 1..Len(q) |->
        (IF n = 1 THEN <<>> ELSE <<"&">>) \o q[n][1] \o <<"=">> \o q[n][2]])

HexDigits ==
    <<"0", "1", "2", "3", "4", "5", "6", "7", "8", "9", "a", "b", "c", "d", "e", "f">>

\* format!("{:x}", ..) of one byte
HexByte(c) == <<HexDigits[(CharCode[c] \div 16) + 1], HexDigits[(CharCode[c] % 16) + 1]>>

\* Md5 and its lowercase hex form (lines 51-53): a string of hex digits that
\* stands for its input and for nothing else
Md5Hex(bytes) == Concat([n \in 1..Len(bytes) |-> HexByte(bytes[n])])

\* HashMap::insert
Insert(map, k, v) == [x \in DOMAIN map \cup {k} |-> IF x = k THEN v ELSE map[x]]

\* the orders in which a HashMap may yield its keys
Orders(keys) ==
    {o \in [1..Cardinality(keys) -> keys] : \A i, j \in DOMAIN o : i # j => o[i] # o[j]}

\* enc_wbi, lines 35-42: the sorted pairs are collected into a HashMap again,
\* which yields them in an order of its own
QueryOrders(keys) == Orders(keys)

\* enc_wbi, lines 27-63, at the clock value now, for the orders in which the
\* map yields its entries when the query is built and when the result is
enc_wbi(params, img_key, sub_key, now, order, final_order) ==
    LET mixin_key == get_mixin_key(img_key, sub_key)
        stamped == Insert(params, <<"w", "t", "s">>, to_string(now))
        filtered_params == [k \in DOMAIN stamped |-> FilterValue(stamped[k])]
        query == QueryString(Query(filtered_params, order))
        w_rid == Md5Hex(query \o mixin_key)
        final_params == Insert(filtered_params, <<"w", "_", "r", "i", "d">>, w_rid)
    IN  Query(final_params, final_order)

\* the keys of the two maps enc_wbi iterates
StampedKeys(params) == DOMAIN params \cup {<<"w", "t", "s">>}

FinalKeys(params) == StampedKeys(params) \cup {<<"w", "_", "r", "i", "d">>}

\* one call of enc_wbi at the current time (OffsetDateTime::now_utc, line 31)
EncWbi ==
    /\ wbi.pc = "on"
    /\ Len(wbi.calls) < MaxSignCalls
    /\ \E order \in QueryOrders(StampedKeys(wbi.params)),
          final_order \in QueryOrders(FinalKeys(wbi.params)) :
        wbi' = [wbi EXCEPT !.calls = Append(@,
                   [now |-> wbi.now,
                    out |-> enc_wbi(wbi.params, wbi.img_key, wbi.sub_key,
                                    wbi.now, order, final_order)])]
    /\ UNCHANGED <<core, main, http, parser, auth, post>>

\* a second of the clock passes
Tick ==
    /\ wbi.pc = "on"
    /\ wbi.now < MaxClock
    /\ wbi' = [wbi EXCEPT !.now = @ + 1]
    /\ UNCHANGED <<core, main, http, parser, auth, post>>

----------------------------------------------------------------------------
(* The HTTP client (src/src/common/client/client.rs) *)

\* Option<String>: None is <<>>, Some(s) is <<s>>
None == <<>>

Some(x) == <<x>>

\* the `code` member of a JSON root: absent, an integer that fits i64, an
\* integer beyond i64 (serde_json keeps it as u64) or another JSON value
JsonCodes ==
    {[kind |-> "int", n |-> n] : n \in EnvelopeCodes}
    \cup {[kind |-> k, n |-> 0] : k \in {"absent", "big", "text"}}

\* the `message` member: absent or a string
JsonMessages == {None, Some("denied")}

\* the `data` member: absent, a payload that fits the caller's type, one
\* that does not, or the wbi_img object of the nav endpoint
PayloadData ==
    [kind : {"absent", "payload", "misfit"}, img_url : {None}, sub_url : {None}]

NavUrls == {None, Some(<<"i", "/", "b", "/", "k", "1", ".", "p">>)}

NavData == [kind : {"absent", "nav"}, img_url : NavUrls, sub_url : NavUrls]

NoRoot == [code |-> [kind |-> "absent", n |-> 0], message |-> None,
           data |-> [kind |-> "absent", img_url |-> None, sub_url |-> None]]

\* a response: its status, whether the body arrives, and the body: gzip or
\* not, and JSON text (with its root), an HTML page or something else
ResponsesWith(data) ==
    {r \in [status : {200, 403, 503}, readable : BOOLEAN, gzip : BOOLEAN,
            kind : {"json", "html", "other"},
            root : [code : JsonCodes, message : JsonMessages, data : data]] :
        /\ r.kind # "json" => r.root = NoRoot
        /\ ~r.readable => r.kind = "other" /\ ~r.gzip}

NoResponse ==
    [status |-> 200, readable |-> FALSE, gzip |-> FALSE, kind |-> "other", root |-> NoRoot]

\* try_decompress, lines 150-155: Ok with the decoded bytes for a gzip body
try_decompress(body) ==
    IF body.gzip THEN <<"Ok", [gzip |-> FALSE, kind |-> body.kind, root |-> body.root]>>
    ELSE <<"Err", body>>

\* Value::as_i64 of the `code` member (line 178)
as_i64(code) == IF code.kind = "int" THEN Some(code.n) ELSE None

\* variant of IsApiError: only the negative codes are errors
IsApiErrorNegative(code) == as_i64(code) # None /\ as_i64(code)[1] < 0

\* handle_response, lines 178-179
IsApiError(code) == as_i64(code) # None /\ as_i64(code)[1] # 0

\* serde_json::from_value::<T> (line 192): any root is a Value; a
\* CommonResponse<X> needs an integer code, a string message and a data that
\* is absent or an X
from_value(T, root) ==
    IF T = "Value" THEN TRUE
    ELSE /\ root.code.kind = "int"
         /\ root.message # None
         /\ root.data.kind \in {"absent", "payload"}

\* the results of a client operation
Failure(kind) == [kind |-> kind, code |-> 0, message |-> None, payload |-> NoRoot]

ApiError(code, message) ==
    [kind |-> "ApiError", code |-> code, message |-> Some(message), payload |-> NoRoot]

Payload(root) == [kind |-> "Ok", code |-> 0, message |-> None, payload |-> root]

\* handle_response, lines 157-214
handle_response(T, resp) ==
    IF resp.status >= 500 THEN Failure("RetryLater")
    ELSE IF ~resp.readable THEN Failure("Reqwest")
    ELSE
        LET raw_body == [gzip |-> resp.gzip, kind |-> resp.kind, root |-> resp.root]
            dec == try_decompress(raw_body)
            text == IF dec[1] = "Ok" THEN dec[2] ELSE raw_body
        IN  IF text.kind = "json"
            THEN IF IsApiError(text.root.code)
                 THEN ApiError(as_i64(text.root.code)[1],
                               IF text.root.message # None THEN text.root.message[1]
                               ELSE "Unknown error")
                 ELSE IF from_value(T, text.root) THEN Payload(text.root)
                 ELSE Failure("InvalidResponse")
            ELSE IF text.kind = "html" THEN Failure("HtmlResponse")
            ELSE Failure("InvalidResponse")

\* a request that could not be sent: get maps the error (lines 111-114),
\* post returns it with ? (line 327)
SendError(op) == IF op = "post" THEN Failure("Reqwest") ELSE Failure("InvalidResponse")

\* get, lines 88-122, and post, lines 326-329: one request, then handle_response
ClientCall ==
    /\ http.pc = "start"
    /\ http.op \in {"get", "post"}
    /\ \E sent \in BOOLEAN, resp \in ResponsesWith(PayloadData) :
        /\ ~sent => resp = NoResponse
        /\ http' = [http EXCEPT
               !.pc = "done",
               !.requests = Append(@, [url |-> "target", query |-> <<>>]),
               !.sent = sent,
               !.resp = resp,
               !.result = IF sent THEN handle_response(http.T, resp)
                          ELSE SendError(http.op)]
    /\ UNCHANGED <<core, main, wbi, parser, auth, post>>

\* str::split(sep).last() and str::split(sep).next()
LastSegment(str, sep) ==
    LET at == {i \in 1..Len(str) : str[i] = sep}
    IN  IF at = {} THEN str
        ELSE SubSeq(str, (CHOOSE i \in at : \A j \in at : j <= i) + 1, Len(str))

FirstSegment(str, sep) ==
    LET at == {i \in 1..Len(str) : str[i] = sep}
    IN  IF at = {} THEN str
        ELSE SubSeq(str, 1, (CHOOSE i \in at : \A j \in at : i <= j) - 1)

\* get_wbi_keys, lines 499-514: the file name of the URL without its extension
KeyOfUrl(url) == FirstSegment(LastSegment(url, "/"), ".")

NoKeys == [ok |-> FALSE, img_key |-> <<>>, sub_key |-> <<>>]

\* get_wbi_keys, lines 485-517, on the result of the GET of the nav endpoint
get_wbi_keys(result) ==
    IF result.kind # "Ok" THEN NoKeys
    ELSE LET data == result.payload.data
         IN  IF data.kind = "absent" \/ data.img_url = None \/ data.sub_url = None
             THEN NoKeys
             ELSE [ok |-> TRUE, img_key |-> KeyOfUrl(data.img_url[1]),
                   sub_key |-> KeyOfUrl(data.sub_url[1])]

\* get_auto, line 453: the lookup of the keys, one GET of the nav endpoint
GetWbiKeys ==
    /\ http.pc = "start"
    /\ http.op = "get_auto"
    /\ \E sent \in BOOLEAN, resp \in ResponsesWith(NavData) :
        /\ ~sent => resp = NoResponse
        /\ http' = [http EXCEPT
               !.pc = "keys",
               !.requests = Append(@, [url |-> "nav", query |-> <<>>]),
               !.keys = get_wbi_keys(IF sent THEN handle_response("Value", resp)
                                     ELSE SendError("get"))]
    /\ UNCHANGED <<core, main, wbi, parser, auth, post>>

\* form_urlencoded::byte_serialize of one character
FormEncodeChar(c) ==
    IF IsAlphanumeric(c) \/ c \in {"*", "-", ".", "_"} THEN <<c>>
    ELSE IF c = " " THEN <<"+">>
    ELSE Percent(c)

form_encode(str) == Concat([n \in 1..Len(str) |-> FormEncodeChar(str[n])])

\* serde_urlencoded::to_string(&params), line 457
UnsignedQuery(params, order) ==
    [n \in 1..Len(order) |-> <<form_encode(order[n]), form_encode(params[order[n]])>>]

\* the queries get_auto may append at the clock value now: every order in
\* which the maps yield their entries
SignedQueries(params, keys, now) ==
    {enc_wbi(params, keys.img_key, keys.sub_key, now, order, final_order) :
        order \in QueryOrders(StampedKeys(params)),
        final_order \in QueryOrders(FinalKeys(params))}

UnsignedQueries(params) == {UnsignedQuery(params, order) : order \in Orders(DOMAIN params)}

\* variant of AutoQueries: the helper signs with the keys it has, found or not
AutoQueriesSigned(params, keys, now) == SignedQueries(params, keys, now)

\* get_auto, lines 453-459: sign with the keys, or fall back to the
\* caller's parameters
AutoQueries(params, keys, now) ==
    IF keys.ok THEN SignedQueries(params, keys, now) ELSE UnsignedQueries(params)

\* the answers of the target of a signed GET: the envelope, plain
AutoResponses ==
    {NoResponse} \cup
    {r \in ResponsesWith(PayloadData) :
        r.readable /\ ~r.gzip /\ r.kind = "json" /\ r.root.code.kind = "int"}

\* get_auto, lines 453-462: the query is built and the target is asked for
GetAuto ==
    /\ http.pc = "keys"
    /\ \E sent \in BOOLEAN, resp \in AutoResponses :
        /\ ~sent => resp = NoResponse
        /\ \E query \in AutoQueries(http.params, http.keys, MaxClock) :
            http' = [http EXCEPT
               !.pc = "done",
               !.requests = Append(@, [url |-> "target", query |-> query]),
               !.sent = sent,
               !.resp = resp,
               !.result = IF sent THEN handle_response(http.T, resp)
                          ELSE SendError("get")]
    /\ UNCHANGED <<core, main, wbi, parser, auth, post>>

----------------------------------------------------------------------------
(* The resolver (src/src/parser/detail_parser) *)

\* the outcome of a request of the resolver: Ok, or a ParseError: its
\* variant and the envelope code its message names (0 if none)
ParseFailure(kind, code) == [ok |-> FALSE, kind |-> kind, code |-> code]

Resolved == [ok |-> TRUE, kind |-> "Ok", code |-> 0]

NotResolved == ParseFailure("none", 0)

\* get_video_info, lines 76-110, and get_play_url, lines 132-164, on the
\* result of the signed GET: every error of the client becomes a
\* NetworkError (map_err, lines 83 and 139); a payload whose code is not 0
\* becomes the ParseError of that code (lines 86-106 and 142-161), one
\* without data a ParseError (lines 108-109 and 163-164)
resolver_result(result) ==
    IF result.kind # "Ok" THEN ParseFailure("NetworkError", 0)
    ELSE IF result.payload.code.n # 0
    THEN ParseFailure("ParseError", result.payload.code.n)
    ELSE IF result.payload.data.kind = "absent" THEN ParseFailure("ParseError", 0)
    ELSE Resolved

\* get_video_info and get_play_url: the resolver reads the envelope that
\* its signed GET returned
ResolverRequest ==
    /\ http.pc = "done"
    /\ http.op = "get_auto"
    /\ http.T = "CommonResponse"
    /\ http' = [http EXCEPT !.pc = "resolved",
                            !.failure = resolver_result(http.result)]
    /\ UNCHANGED <<core, main, wbi, parser, auth, post>>

\* str::split(sep): the pieces between the separators, at least one
RECURSIVE Split(_, _)
Split(str, sep) ==
    LET at == {i \in 1..Len(str) : str[i] = sep}
    IN  IF at = {} THEN <<str>>
        ELSE LET i == CHOOSE i \in at : \A j \in at : i <= j
             IN  <<SubSeq(str, 1, i - 1)>> \o Split(SubSeq(str, i + 1, Len(str)), sep)

\* the value of a string of decimal digits
RECURSIVE DigitsValue(_)
DigitsValue(digits) ==
    IF digits = <<>> THEN 0
    ELSE 10 * DigitsValue(SubSeq(digits, 1, Len(digits) - 1))
         + DigitValue(digits[Len(digits)])

\* str::parse::<i64>: an optional sign and at least one digit, nothing else
\* (the strings of the bounded alphabet are too short to overflow an i64)
parse_i64(str) ==
    LET signed == str # <<>> /\ str[1] \in {"+", "-"}
        digits == IF signed THEN Tail(str) ELSE str
    IN  IF digits = <<>> \/ \E i \in DOMAIN digits : ~IsDigit(digits[i]) THEN None
        ELSE Some(IF signed /\ str[1] = "-" THEN 0 - DigitsValue(digits)
                  ELSE DigitsValue(digits))

\* start..=end as a sequence
RangeInclusive(start, end) == [i \in 1..(end - start + 1) |-> start + i - 1]

\* slice::sort_unstable of integers: the k-th element of the result is the
\* value with fewer than k smaller elements and at least k elements up to it
sort_unstable(v) ==
    [k \in 1..Len(v) |->
        CHOOSE x \in {v[i] : i \in DOMAIN v} :
            /\ Cardinality({i \in DOMAIN v : v[i] < x}) < k
            /\ k <= Cardinality({i \in DOMAIN v : v[i] <= x})]

\* Vec::dedup: of consecutive equal elements the first is kept
dedup(v) ==
    LET kept == {i \in DOMAIN v : i = 1 \/ v[i] # v[i - 1]}
    IN  [k \in 1..Cardinality(kept) |->
            v[CHOOSE i \in kept : Cardinality({j \in kept : j <= i}) = k]]

RangeErr == [ok |-> FALSE, episodes |-> <<>>]

RangeOk(episodes) == [ok |-> TRUE, episodes |-> episodes]

\* parse_episode_range, lines 80-105: the episodes of one part, or the error
EpisodesOfPart(part) ==
    IF \E i \in DOMAIN part : part[i] = "-"
    THEN LET range == Split(part, "-")
         IN  IF Len(range) # 2 THEN RangeErr
             ELSE LET start == parse_i64(range[1])
                      end == parse_i64(range[2])
                  IN  IF start = None \/ end = None THEN RangeErr
                      ELSE IF start[1] > end[1] THEN RangeErr
                      ELSE RangeOk(RangeInclusive(start[1], end[1]))
    ELSE LET ep == parse_i64(part)
         IN  IF ep = None THEN RangeErr ELSE RangeOk(<<ep[1]>>)

\* parse_episode_range, lines 79-106: the loop over the parts, which returns
\* at the first error
RECURSIVE EpisodesOfParts(_)
EpisodesOfParts(parts) ==
    IF parts = <<>> THEN RangeOk(<<>>)
    ELSE LET first == EpisodesOfPart(parts[1])
             rest == EpisodesOfParts(Tail(parts))
         IN  IF ~first.ok \/ ~rest.ok THEN RangeErr
             ELSE RangeOk(first.episodes \o rest.episodes)

\* parse_episode_range, lines 76-116
parse_episode_range(range_str) ==
    LET collected == EpisodesOfParts(Split(range_str, ","))
    IN  IF ~collected.ok THEN RangeErr
        ELSE LET episodes == dedup(sort_unstable(collected.episodes))
             IN  IF episodes = <<>> THEN RangeErr ELSE RangeOk(episodes)

\* one call of parse_episode_range
ParseEpisodeRange ==
    /\ parser.pc = "start"
    /\ parser.op = "range"
    /\ parser' = [parser EXCEPT !.pc = "done",
                                !.range = parse_episode_range(parser.range_str)]
    /\ UNCHANGED <<core, main, http, wbi, auth, post>>

\* the indices of a list without the index i, renumbered
Without(v, i) == SubSeq(v, 1, i - 1) \o SubSeq(v, i + 1, Len(v))

\* variant of sort_by: among equal keys the later element comes first
RECURSIVE sort_by_last(_, _)
sort_by_last(v, key) ==
    IF v = <<>> THEN <<>>
    ELSE LET i == CHOOSE i \in DOMAIN v : \A j \in DOMAIN v :
                      key[i] < key[j] \/ (key[i] = key[j] /\ i >= j)
         IN  <<v[i]>> \o sort_by_last(Without(v, i), Without(key, i))

\* slice::sort_by, a stable sort: v in ascending order of the keys (key[i] is
\* the key of v[i]), elements with equal keys in their original order
RECURSIVE sort_by(_, _)
sort_by(v, key) ==
    IF v = <<>> THEN <<>>
    ELSE LET i == CHOOSE i \in DOMAIN v : \A j \in DOMAIN v :
                      key[i] < key[j] \/ (key[i] = key[j] /\ i <= j)
         IN  <<v[i]>> \o sort_by(Without(v, i), Without(key, i))

SelectErr == [ok |-> FALSE, base_url |-> 0]

Selected(stream) == [ok |-> TRUE, base_url |-> stream.base_url]

\* select_video_stream, lines 7-70
select_video_stream(streams, resolution) ==
    IF streams = <<>> THEN SelectErr
    ELSE IF \E i \in DOMAIN streams : streams[i].id = resolution
    THEN \* lines 29-32: Iterator::find, the first exact match
         Selected(streams[CHOOSE i \in DOMAIN streams :
                     /\ streams[i].id = resolution
                     /\ \A j \in 1..(i - 1) : streams[j].id # resolution])
    ELSE LET suitable_streams == SelectSeq(streams, LAMBDA st : st.id <= resolution)
         IN  IF suitable_streams # <<>>
             THEN \* lines 40-48: descending by id
                  Selected(sort_by(suitable_streams,
                      [i \in DOMAIN suitable_streams |-> 0 - suitable_streams[i].id])[1])
             ELSE \* lines 52-69: ascending by id
                  Selected(sort_by(streams, [i \in DOMAIN streams |-> streams[i].id])[1])

\* select_audio_stream, lines 73-99: descending by bandwidth
select_audio_stream(streams) ==
    IF streams = <<>> THEN SelectErr
    ELSE Selected(sort_by(streams,
             [i \in DOMAIN streams |-> 0 - streams[i].bandwidth])[1])

\* one call of select_video_stream
SelectVideoStream ==
    /\ parser.pc = "start"
    /\ parser.op = "video"
    /\ parser' = [parser EXCEPT
           !.pc = "done",
           !.selected = select_video_stream(parser.streams, parser.resolution)]
    /\ UNCHANGED <<core, main, http, wbi, auth, post>>

\* one call of select_audio_stream
SelectAudioStream ==
    /\ parser.pc = "start"
    /\ parser.op = "audio"
    /\ parser' = [parser EXCEPT !.pc = "done",
                                !.selected = select_audio_stream(parser.streams)]
    /\ UNCHANGED <<core, main, http, wbi, auth, post>>

\* the result of get_auto::<CommonResponse<PlayUrlData>>: an error, or the
\* envelope with its code and its data (absent, or dash and durl, each
\* absent or present)
NoPlayData == [dash |-> None, durl |-> None]

PlayErr == [ok |-> FALSE, data |-> NoPlayData]

PlayOk(data) == [ok |-> TRUE, data |-> data]

\* get_play_url, lines 114-172, on the result of the signed GET
get_play_url(resp) ==
    IF resp.kind # "Ok" THEN PlayErr                     \* lines 132-139
    ELSE IF resp.code # 0 THEN PlayErr                   \* lines 142-161
    ELSE IF resp.data = None THEN PlayErr                \* lines 163-164
    ELSE IF resp.data[1].dash = None /\ resp.data[1].durl = None
    THEN PlayErr                                         \* lines 166-167
    ELSE PlayOk(resp.data[1])

\* DownloadTask::new as create_video_meta calls it: the URL, the file type
\* and the suffix of the output path
DownloadTask(url, file_type, output) ==
    [url |-> url, file_type |-> file_type, output |-> output]

MetaErr == [ok |-> FALSE, tasks |-> <<>>]

\* create_video_meta, lines 267-285
DanmakuTasks(config) ==
    IF config.need_danmaku
    THEN <<DownloadTask([from |-> "comment", n |-> 0], "Danmaku", "-danmaku.xml")>>
    ELSE <<>>

\* create_video_meta, lines 328-350
Mp4Tasks(config, play_info) ==
    IF config.need_video /\ play_info.durl # None /\ play_info.durl[1] # <<>>
    THEN <<DownloadTask([from |-> "durl", n |-> play_info.durl[1][1]],
                        "Video", "-durl-video.mp4")>>
    ELSE <<>>

\* create_video_meta, lines 257-356, on the result of the signed GET
create_video_meta(config, resp) ==
    LET play == get_play_url(resp)
        play_info == play.data
        wants_video == config.need_video /\ play_info.dash # None
        wants_audio == config.need_audio /\ play_info.dash # None
        video == IF wants_video
                 THEN select_video_stream(play_info.dash[1].video, config.resolution)
                 ELSE SelectErr
        audio == IF wants_audio THEN select_audio_stream(play_info.dash[1].audio)
                 ELSE SelectErr
    IN  IF ~play.ok THEN MetaErr
        ELSE IF wants_video /\ ~video.ok THEN MetaErr
        ELSE IF wants_audio /\ ~audio.ok THEN MetaErr
        ELSE [ok |-> TRUE,
              tasks |->
                  DanmakuTasks(config)
                  \o (IF wants_video
                      THEN <<DownloadTask([from |-> "dash", n |-> video.base_url],
                                          "Video", "-video.mp4")>>
                      ELSE <<>>)
                  \o (IF wants_audio
                      THEN <<DownloadTask([from |-> "dash", n |-> audio.base_url],
                                          "Audio", "-audio.mp3")>>
                      ELSE <<>>)
                  \o Mp4Tasks(config, play_info)]

\* one call of create_video_meta
CreateVideoMeta ==
    /\ parser.pc = "start"
    /\ parser.op = "meta"
    /\ parser' = [parser EXCEPT !.pc = "done",
                                !.meta = create_video_meta(parser.config, parser.resp)]
    /\ UNCHANGED <<core, main, http, wbi, auth, post>>

\* the character classes of the patterns: \d and [0-9A-Za-z]
Digits == {DigitChars[d] : d \in 1..10}

Alphanumerics ==
    {"0", "1", "2", "3", "4", "5", "6", "7", "8", "9", "A", "B", "C", "D",
      "E", "F", "G", "H", "I", "J", "K", "L", "M", "N", "O", "P", "Q", "R",
      "S", "T", "U", "V", "W", "X", "Y", "Z", "a", "b", "c", "d", "e", "f",
      "g", "h", "i", "j", "k", "l", "m", "n", "o", "p", "q", "r", "s", "t",
      "u", "v", "w", "x", "y", "z"}

\* VIDEO_PATTERNS, lines 99-143, in their order: the literal text, the class
\* of the captured group and its length ({10}; 0 stands for +, one or more),
\* and the constructor
VIDEO_PATTERNS ==
    <<
      [lit |-> <<"B", "V">>,
       class |-> Alphanumerics, count |-> BV_ID_LEN, kind |-> "CommonVideoBv"],
      [lit |-> <<"a", "v">>,
       class |-> Digits, count |-> 0, kind |-> "CommonVideoAv"],
      [lit |-> <<"c", "h", "e", "e", "s", "e", "/", "p", "l", "a", "y", "/", "e", "p">>,
       class |-> Digits, count |-> 0, kind |-> "CourseEpisode"],
      [lit |-> <<"c", "h", "e", "e", "s", "e", "/", "p", "l", "a", "y", "/", "s", "s">>,
       class |-> Digits, count |-> 0, kind |-> "CourseSeason"],
      [lit |-> <<"e", "p">>,
       class |-> Digits, count |-> 0, kind |-> "BangumiEpisode"],
      [lit |-> <<"s", "s">>,
       class |-> Digits, count |-> 0, kind |-> "BangumiSeason"],
      [lit |-> <<"l", "i", "v", "e", ".", "b", "i", "l", "i", "b", "i", "l", "i", ".", "c", "o", "m", "/">>,
       class |-> Digits, count |-> 0, kind |-> "LiveRoom"],
      [lit |-> <<"m", "e", "d", "i", "a", "l", "i", "s", "t", "/", "d", "e", "t", "a", "i", "l", "/", "m", "l">>,
       class |-> Digits, count |-> 0, kind |-> "Collection"],
      [lit |-> <<"f", "a", "v", "l", "i", "s", "t", "/">>,
       class |-> Digits, count |-> 0, kind |-> "Favorite"],
      [lit |-> <<"m", "e", "d", "i", "a", "l", "i", "s", "t", "/", "p", "l", "a", "y", "/", "m", "l">>,
       class |-> Digits, count |-> 0, kind |-> "UgcSeason"],
      [lit |-> <<"r", "e", "a", "d", "/", "c", "v">>,
       class |-> Digits, count |-> 0, kind |-> "Article"]
    >>

\* the literal of a pattern matches at position i; a dot of the pattern
\* matches any character
LiteralAt(url, lit, i) ==
    /\ i + Len(lit) - 1 <= Len(url)
    /\ \A k \in 1..Len(lit) : lit[k] = "." \/ url[i + k - 1] = lit[k]

\* the end of the longest run of characters of the class that starts at from
\* (from - 1 if there is none)
RunEnd(url, class, from) ==
    LET ends == {j \in from..Len(url) : \A k \in from..j : url[k] \in class}
    IN  IF ends = {} THEN from - 1 ELSE CHOOSE j \in ends : \A k \in ends : k <= j

\* the end of the captured group of a pattern whose literal matches at i:
\* exactly count characters, or the greedy + repetition
GroupEnd(url, pattern, i) ==
    LET from == i + Len(pattern.lit)
    IN  IF pattern.count > 0 THEN from + pattern.count - 1
        ELSE RunEnd(url, pattern.class, from)

\* the pattern matches with its literal at position i
MatchesAt(url, pattern, i) ==
    /\ LiteralAt(url, pattern.lit, i)
    /\ LET from == i + Len(pattern.lit)
       IN  IF pattern.count > 0
           THEN RunEnd(url, pattern.class, from) >= from + pattern.count - 1
           ELSE RunEnd(url, pattern.class, from) >= from

\* Regex::captures, line 147: the leftmost match; the result is group 1
\* (&caps[1], line 148), the text in the parentheses
captures(url, pattern) ==
    LET at == {i \in 1..Len(url) : MatchesAt(url, pattern, i)}
    IN  IF at = {} THEN None
        ELSE LET i == CHOOSE i \in at : \A j \in at : i <= j
             IN  Some(SubSeq(url, i + Len(pattern.lit), GroupEnd(url, pattern, i)))

UnsupportedFormat == [ok |-> FALSE, kind |-> "UnsupportedFormat",
                      bvid |-> None, aid |-> None, id |-> <<>>]

\* the constructors of VIDEO_PATTERNS, lines 101-142
UrlType(kind, id) ==
    IF kind = "CommonVideoBv"
    THEN [ok |-> TRUE, kind |-> "CommonVideo", bvid |-> Some(id), aid |-> None,
          id |-> <<>>]
    ELSE IF kind = "CommonVideoAv"
    THEN \* id.parse().unwrap_or_default(), line 105
         [ok |-> TRUE, kind |-> "CommonVideo", bvid |-> None,
          aid |-> Some(DigitsValue(id)), id |-> <<>>]
    ELSE [ok |-> TRUE, kind |-> kind, bvid |-> None, aid |-> None, id |-> id]

\* extract_video_type, lines 97-153: the first pattern that matches decides
extract_video_type(url) ==
    LET hits == {n \in DOMAIN VIDEO_PATTERNS : captures(url, VIDEO_PATTERNS[n]) # None}
    IN  IF hits = {} THEN UnsupportedFormat
        ELSE LET n == CHOOSE n \in hits : \A m \in hits : n <= m
             IN  UrlType(VIDEO_PATTERNS[n].kind, captures(url, VIDEO_PATTERNS[n])[1])

\* one call of extract_video_type
ExtractVideoType ==
    /\ parser.pc = "start"
    /\ parser.op = "classify"
    /\ parser' = [parser EXCEPT !.pc = "done",
                                !.url_type = extract_video_type(parser.url)]
    /\ UNCHANGED <<core, main, http, wbi, auth, post>>

----------------------------------------------------------------------------
(* The season resolvers (course.rs and bangumi.rs) and the dispatch *)

\* a failed resolve: the variant of the ParseError, no metadata; the
\* ParseError::ParseError of an options variant that is not the resolver's
\* (course.rs:300, bangumi.rs:308, common_video.rs:30) is "InvalidOptions"
SeasonErr(kind) == [ok |-> FALSE, kind |-> kind, metas |-> <<>>]

\* get_detail_parser, mod.rs, lines 22-38: the resolver of a kind
get_detail_parser(kind) ==
    IF kind = "CommonVideo" THEN Some("CommonVideo")
    ELSE IF kind \in {"BangumiEpisode", "BangumiSeason"} THEN Some("Bangumi")
    ELSE IF kind \in {"CourseEpisode", "CourseSeason"} THEN Some("Course")
    ELSE None

\* create_video_meta of the course resolver (course.rs, lines 178-256) and
\* create_episode_meta of the season resolver (bangumi.rs, lines 143-238) on
\* the answer of the playurl request of the episode at a position of the
\* array: a DASH answer gives the metadata of one video and one audio
\* stream, a durl answer that of one video (which bangumi.rs, line 232,
\* also labels Dash); an error or an answer without source is the error
create_episode_meta(resolver, position, play) ==
    IF play = "dash"
    THEN [ok |-> TRUE, kind |-> "Ok",
          metas |-> <<[episode |-> position, stream_type |-> "Dash",
                       items |-> {"Video", "Audio"}]>>]
    ELSE IF play = "durl"
    THEN [ok |-> TRUE, kind |-> "Ok",
          metas |-> <<[episode |-> position,
                       stream_type |-> IF resolver = "Bangumi" THEN "Dash" ELSE "MP4",
                       items |-> {"Video"}]>>]
    ELSE IF play = "error" THEN SeasonErr("NetworkError")
    ELSE SeasonErr("ParseError")

\* course.rs, lines 330-335: for each number of the range, in its order, the
\* first episode whose platform id is that number (filter_map over find);
\* the result lists the positions of the episodes found
RECURSIVE valid_episodes(_, _)
valid_episodes(episodes, wanted) ==
    IF wanted = <<>> THEN <<>>
    ELSE LET at == {i \in DOMAIN episodes : episodes[i] = wanted[1]}
         IN  (IF at = {} THEN <<>> ELSE <<CHOOSE i \in at : \A j \in at : i <= j>>)
             \o valid_episodes(episodes, Tail(wanted))

\* course.rs, lines 315-359: the CourseSeason arm; episodes holds the
\* platform ids of the episodes array, plays the answers of the playurl
\* requests by position
course_season(episodes, range, plays) ==
    IF range # None
    THEN LET parsed == parse_episode_range(range[1])              \* line 327
             valid == valid_episodes(episodes, parsed.episodes)
         IN  IF ~parsed.ok THEN SeasonErr("ParseError")
             ELSE IF valid = <<>> THEN SeasonErr("ParseError")    \* lines 337-341
             ELSE create_episode_meta("Course", valid[1], plays[valid[1]]) \* line 344
    ELSE IF episodes = <<>> THEN SeasonErr("ParseError")          \* lines 350-353
    ELSE create_episode_meta("Course", 1, plays[1])

\* parse_with_options of the two resolvers: course.rs, lines 289-362, and
\* bangumi.rs, lines 297-383, whose season arm is commented out (lines
\* 324-381); season is the answer of the season request (None if it
\* failed), id the platform id that the URL names
parse_with_options(resolver, kind, id, options, season, range, plays) ==
    IF options # resolver THEN SeasonErr("InvalidOptions")
    ELSE IF kind = "BangumiSeason" THEN SeasonErr("InvalidUrl")   \* bangumi.rs:381
    ELSE IF season = None THEN SeasonErr("NetworkError")
    ELSE IF kind = "CourseSeason" THEN course_season(season[1], range, plays)
    ELSE LET found == valid_episodes(season[1], <<id>>)           \* .find(ep.id == ep_id)
         IN  IF found = <<>> THEN SeasonErr("ParseError")
             ELSE create_episode_meta(resolver, found[1], plays[found[1]])

\* one resolve by the resolver of the kind
ParseWithOptions ==
    /\ parser.pc = "start"
    /\ parser.op = "season"
    /\ parser' = [parser EXCEPT
                    !.pc = "done",
                    !.result = parse_with_options(get_detail_parser(parser.kind)[1],
                                                  parser.kind, parser.id,
                                                  parser.options, parser.season,
                                                  parser.range, parser.plays)]
    /\ UNCHANGED <<core, main, http, wbi, auth, post>>

\* get_video_info, common_video.rs, lines 65-112, on the answer of the view
\* request: an error of the client is a NetworkError (line 83), a code that
\* is not 0 or an envelope without data a ParseError (lines 86-112), and
\* the data is returned as it was decoded; CommonVideoInfo (lines 385-394)
\* declares redirect_url, and nothing reads it
get_video_info(view) ==
    IF view.kind # "Ok" THEN [ok |-> FALSE, kind |-> "NetworkError", info |-> None]
    ELSE IF view.code # 0 \/ view.data = None
    THEN [ok |-> FALSE, kind |-> "ParseError", info |-> None]
    ELSE [ok |-> TRUE, kind |-> "Ok", info |-> view.data]

\* parse_with_options of the clip resolver, common_video.rs, lines 23-57:
\* the view request, then create_video_meta with its playurl request (line
\* 49); requests counts the playurl requests made
common_video_parse(config, view, resp) ==
    LET video_info == get_video_info(view)
        download_items == create_video_meta(config, resp)
    IN  IF ~video_info.ok
        THEN [ok |-> FALSE, kind |-> video_info.kind, url |-> None,
              requests |-> 0, download_items |-> <<>>]
        ELSE IF ~download_items.ok
        THEN [ok |-> FALSE, kind |-> "ParseError", url |-> None,
              requests |-> 1, download_items |-> <<>>]
        ELSE [ok |-> TRUE, kind |-> "Ok", url |-> None,
              requests |-> 1, download_items |-> download_items.tasks]

\* one resolve of a clip
CommonVideoParse ==
    /\ parser.pc = "start"
    /\ parser.op = "clip"
    /\ parser' = [parser EXCEPT
                    !.pc = "done",
                    !.result = common_video_parse(parser.config, parser.view,
                                                  parser.resp)]
    /\ UNCHANGED <<core, main, http, wbi, auth, post>>

----------------------------------------------------------------------------
(* Authentication (src/src/auth) *)

\* session ids (Uuid): one more than the store holds at first
SessionIds == 1..(MaxSessions + 1)

\* the results of the operations: Ok(session_id) or an error
AuthOk(session_id) == [ok |-> TRUE, kind |-> "Ok", id |-> <<session_id>>]

AuthErr(kind) == [ok |-> FALSE, kind |-> kind, id |-> <<>>]

NoResult == AuthErr("none")

\* variant of create_session: an id that is already in the store is rebound
create_session_rebind(store, session_id, client, saved) ==
    LET sessions == Insert(store.sessions, session_id, client)
    IN  IF saved
        THEN [store |-> [sessions |-> sessions,
                         files |-> Insert(store.files, session_id, client)],
              result |-> AuthOk(session_id)]
        ELSE [store |-> [sessions |-> sessions, files |-> store.files],
              result |-> AuthErr("InvalidResponse")]

\* SessionManager::create_session, session.rs lines 25-45: the store (the
\* map of the sessions and the files under ./sessions) after the call and
\* the result; saved tells whether save_session_to_file succeeded
create_session(store, session_id, client, saved) ==
    IF session_id \in DOMAIN store.sessions
    THEN [store |-> store, result |-> AuthErr("InvalidResponse")]   \* lines 33-35
    ELSE LET sessions == Insert(store.sessions, session_id, client) \* line 38
         IN  IF saved                                               \* line 41
             THEN [store |-> [sessions |-> sessions,
                              files |-> Insert(store.files, session_id, client)],
                   result |-> AuthOk(session_id)]
             ELSE [store |-> [sessions |-> sessions, files |-> store.files],
                   result |-> AuthErr("InvalidResponse")]

\* one call of create_session
CreateSession ==
    /\ auth.pc = "start"
    /\ auth.op = "create"
    /\ \E saved \in BOOLEAN :
        LET after == create_session(auth.store, auth.session_id, auth.client, saved)
        IN  auth' = [auth EXCEPT !.pc = "done", !.store = after.store,
                                 !.result = after.result]
    /\ UNCHANGED <<core, main, http, wbi, parser, post>>

\* the answers to one poll of the login status: the GET failed, the
\* response has no data, or it has data with a code
PollAnswers ==
    {[kind |-> "error", code |-> 0], [kind |-> "nodata", code |-> 0]}
    \cup {[kind |-> "data", code |-> c] : c \in QrCodes}

Pending(answer) == answer.kind = "data" /\ answer.code \in {86090, 86101}

\* check_qr_login_status, lines 154-164: the client and the session id are
\* made (Uuid::new_v4, an id no session has); with no poll to make the loop
\* is over at once (line 229)
CheckQrLoginStatus ==
    /\ auth.pc = "start"
    /\ auth.op = "qr"
    /\ \E session_id \in SessionIds \ DOMAIN auth.store.sessions :
        auth' = [auth EXCEPT
            !.session_id = session_id,
            !.pc = IF auth.budget = 0 THEN "done" ELSE "polling",
            !.result = IF auth.budget = 0 THEN AuthErr("OperationTimeout")
                       ELSE NoResult]
    /\ UNCHANGED <<core, main, http, wbi, parser, post>>

\* check_qr_login_status, lines 165-226: one turn of the loop, and the end
\* of the loop (line 229) after the last turn
QrPoll ==
    /\ auth.pc = "polling"
    /\ Len(auth.polls) < auth.budget
    /\ \E answer \in PollAnswers, saved \in BOOLEAN :
        LET last == Len(auth.polls) + 1 = auth.budget
            made == create_session(auth.store, auth.session_id, auth.client, saved)
            logged_in == answer.kind = "data" /\ answer.code = 0
        IN  /\ ~logged_in => ~saved
            /\ auth' = [auth EXCEPT
                !.polls = Append(@, answer),
                !.store = IF logged_in THEN made.store ELSE @,       \* line 185
                !.pc = IF Pending(answer) /\ ~last THEN "polling" ELSE "done",
                !.result =
                    IF answer.kind = "error" THEN AuthErr("GetError")   \* line 166
                    ELSE IF answer.kind = "nodata"
                    THEN AuthErr("InvalidResponse")                     \* line 222
                    ELSE IF answer.code = 0 THEN made.result            \* lines 185-186
                    ELSE IF answer.code = 86038 THEN AuthErr("QrCodeExpired")
                    ELSE IF Pending(answer)
                    THEN (IF last THEN AuthErr("OperationTimeout") ELSE NoResult)
                    ELSE AuthErr("InvalidResponse")]                    \* lines 207-215
    /\ UNCHANGED <<core, main, http, wbi, parser, post>>

----------------------------------------------------------------------------
(* The post-processor (src/src/post_process) *)

\* the three characters of the episode patterns that are not ASCII, each one
\* character of a name: U+7B2C, U+8BDD and U+96C6
Di == "U+7B2C"
Hua == "U+8BDD"
Ji == "U+96C6"

\* the tags that extract_episode_key (lines 84-93) and
\* clean_filename_for_output (lines 298-307) remove, in their order
SUFFIX_TAGS ==
    << <<"-", "v", "i", "d", "e", "o", ".", "m", "p", "4">>, <<"-", "a", "u", "d", "i", "o", ".", "m", "4", "s">>,
       <<"-", "v", "i", "d", "e", "o">>, <<"-", "a", "u", "d", "i", "o">>,
       <<"_", "v", "i", "d", "e", "o">>, <<"_", "a", "u", "d", "i", "o">>,
       <<".", "m", "p", "4">>, <<".", "m", "4", "s">>, <<".", "x", "m", "l">> >>

\* the text starts with the literal
StartsWith(name, lit) ==
    Len(lit) <= Len(name) /\ SubSeq(name, 1, Len(lit)) = lit

\* str::replace(from, ""): every occurrence removed, from left to right
RECURSIVE replace(_, _)
replace(name, from) ==
    IF name = <<>> THEN <<>>
    ELSE IF StartsWith(name, from)
    THEN replace(SubSeq(name, Len(from) + 1, Len(name)), from)
    ELSE <<Head(name)>> \o replace(Tail(name), from)

\* the chain of replace calls, lines 84-93 and 298-307
RECURSIVE RemoveTags(_, _)
RemoveTags(name, tags) ==
    IF tags = <<>> THEN name
    ELSE RemoveTags(replace(name, Head(tags)), Tail(tags))

\* str::trim
trim(name) ==
    LET solid == {i \in DOMAIN name : name[i] # " "}
    IN  IF solid = {} THEN <<>>
        ELSE SubSeq(name, CHOOSE i \in solid : \A j \in solid : i <= j,
                          CHOOSE i \in solid : \A j \in solid : j <= i)

\* clean_filename_for_output, lines 297-310
clean_filename_for_output(name) == trim(RemoveTags(name, SUFFIX_TAGS))

\* name[from..to] is white space only (\s*)
Spaces(name, from, to) == \A k \in from..to : name[k] = " "

\* \s*-\s*\d+$ matches from position d + 1 to the end of the name
TailMatches(name, d) ==
    \E e \in d..Len(name), f \in d..Len(name) :
        /\ e + 1 <= f /\ f + 1 <= Len(name)
        /\ Spaces(name, d + 1, e)
        /\ name[e + 1] = "-"
        /\ Spaces(name, e + 2, f)
        /\ \A k \in (f + 1)..Len(name) : IsDigit(name[k])

\* (.+?)\s*-\s*\d+$ matches with its group starting at position c + 1
GroupMatches(name, c) == \E d \in (c + 1)..Len(name) : TailMatches(name, d)

\* \s*-\s*(.+?)\s*-\s*\d+$ matches from position a + 1, the first run of
\* white space ending at b and the second at c
MiddleMatches(name, a, b, c) ==
    /\ a <= b /\ b + 1 <= c /\ c <= Len(name)
    /\ Spaces(name, a + 1, b)
    /\ name[b + 1] = "-"
    /\ Spaces(name, b + 2, c)
    /\ GroupMatches(name, c)

\* the regular expression of lines 102 and 119,
\* ^(.+?)\s*-\s*(.+?)\s*-\s*\d+$: None, or the two groups; a lazy group takes
\* the shortest text and \s* the longest that let the rest match
bangumi_captures(name) ==
    LET n == Len(name)
        as == {a \in 1..n : \E b \in a..n, c \in a..n : MiddleMatches(name, a, b, c)}
    IN  IF as = {} THEN None
        ELSE LET a == CHOOSE a \in as : \A x \in as : a <= x
                 bs == {b \in a..n : \E c \in a..n : MiddleMatches(name, a, b, c)}
                 b == CHOOSE b \in bs : \A x \in bs : x <= b
                 cs == {c \in a..n : MiddleMatches(name, a, b, c)}
                 c == CHOOSE c \in cs : \A x \in cs : x <= c
                 ds == {d \in (c + 1)..n : TailMatches(name, d)}
                 d == CHOOSE d \in ds : \A x \in ds : d <= x
             IN  Some([title |-> SubSeq(name, 1, a),
                       episode_title |-> SubSeq(name, c + 1, d)])

\* the episode patterns, lines 104-114, in their order: the literal before
\* the digits, whether a run of digits and an E come before the captured
\* digits (S\d+E), and the literal after them
EPISODE_PATTERNS ==
    << [lit |-> <<Di>>, season |-> FALSE, post |-> <<Hua>>],
       [lit |-> <<Di>>, season |-> FALSE, post |-> <<Ji>>],
       [lit |-> <<"E", "P">>, season |-> FALSE, post |-> <<>>],
       [lit |-> <<"e", "p">>, season |-> FALSE, post |-> <<>>],
       [lit |-> <<>>, season |-> FALSE, post |-> <<".">>],
       [lit |-> <<"_">>, season |-> FALSE, post |-> <<"_">>],
       [lit |-> <<"-">>, season |-> FALSE, post |-> <<"-">>],
       [lit |-> <<"[">>, season |-> FALSE, post |-> <<"]">>],
       [lit |-> <<"S">>, season |-> TRUE, post |-> <<>>],
       [lit |-> <<"P">>, season |-> FALSE, post |-> <<>>],
       [lit |-> <<"p">>, season |-> FALSE, post |-> <<>>] >>

\* the patterns tried on the episode title of the bangumi format, line 125
TITLE_PATTERNS == SubSeq(EPISODE_PATTERNS, 1, 5)

\* the first position of the captured digits of a pattern whose match starts
\* at position i, 0 if the text before the group does not match
EpisodeGroupStart(name, pattern, i) ==
    LET from == i + Len(pattern.lit)
    IN  IF ~StartsWith(SubSeq(name, i, Len(name)), pattern.lit) THEN 0
        ELSE IF ~pattern.season THEN from
        ELSE LET r == RunEnd(name, Digits, from)
             IN  IF r >= from /\ r + 1 <= Len(name) /\ name[r + 1] = "E"
                 THEN r + 2 ELSE 0

\* the pattern matches with its first character at position i: the digits
\* are the longest run, and no literal after them is a digit
EpisodeMatchesAt(name, pattern, i) ==
    LET from == EpisodeGroupStart(name, pattern, i)
    IN  /\ from > 0
        /\ RunEnd(name, Digits, from) >= from
        /\ StartsWith(SubSeq(name, RunEnd(name, Digits, from) + 1, Len(name)),
                      pattern.post)

\* Regex::captures, lines 127 and 145: None, or the leftmost match: where it
\* starts and ends, and the captured digits
episode_captures(name, pattern) ==
    LET at == {i \in 1..Len(name) : EpisodeMatchesAt(name, pattern, i)}
    IN  IF at = {} THEN None
        ELSE LET i == CHOOSE i \in at : \A j \in at : i <= j
                 from == EpisodeGroupStart(name, pattern, i)
                 to == RunEnd(name, Digits, from)
             IN  Some([first |-> i, last |-> to + Len(pattern.post),
                       digits |-> SubSeq(name, from, to)])

\* str::parse::<u32>().unwrap_or(0), lines 129 and 147 (more than nine digits
\* do not occur in the names of the bounded sets)
parse_u32(digits) == IF Len(digits) > 9 THEN 0 ELSE DigitsValue(digits)

\* format!("Episode_{:02}", ep_num)
EpisodeTag(ep_num) ==
    <<"E", "p", "i", "s", "o", "d", "e", "_">>
    \o (IF ep_num < 10 THEN <<"0">> ELSE <<>>) \o to_string(ep_num)

\* the first of the patterns that matches the name, 0 if none does
FirstPattern(name, patterns) ==
    LET hits == {n \in DOMAIN patterns : episode_captures(name, patterns[n]) # None}
    IN  IF hits = {} THEN 0 ELSE CHOOSE n \in hits : \A m \in hits : n <= m

\* lines 119-138: the key of a name of the bangumi format; n is the first of
\* TITLE_PATTERNS that matches the episode title, 0 if none does
BangumiKey(title, episode_title, n) ==
    IF n > 0
    THEN trim(title) \o <<":", ":">>
         \o EpisodeTag(parse_u32(
                episode_captures(episode_title, TITLE_PATTERNS[n])[1].digits))
    ELSE trim(title) \o <<":", ":">> \o trim(episode_title)

\* Regex::replace, line 149: the name without the first match, trimmed
BaseName(clean_name, hit) ==
    trim(SubSeq(clean_name, 1, hit.first - 1)
         \o SubSeq(clean_name, hit.last + 1, Len(clean_name)))

\* lines 141-156: the key of a name that a pattern matches
PatternKey(clean_name, hit) ==
    IF BaseName(clean_name, hit) # <<>>
    THEN BaseName(clean_name, hit) \o <<":", ":">> \o EpisodeTag(parse_u32(hit.digits))
    ELSE EpisodeTag(parse_u32(hit.digits))

\* lines 118-161: the key of a name without its tags
CleanKey(clean_name, bangumi, n) ==
    IF bangumi # None
    THEN BangumiKey(bangumi[1].title, bangumi[1].episode_title,
                    FirstPattern(bangumi[1].episode_title, TITLE_PATTERNS))
    ELSE IF n = 0 THEN clean_name
    ELSE PatternKey(clean_name, episode_captures(clean_name, EPISODE_PATTERNS[n])[1])

\* the name without its tags, lines 84-93
clean_name_of(name) == RemoveTags(name, SUFFIX_TAGS)

\* extract_episode_key, lines 80-162
extract_episode_key(name) ==
    CleanKey(clean_name_of(name), bangumi_captures(clean_name_of(name)),
             FirstPattern(clean_name_of(name), EPISODE_PATTERNS))

\* the names the clip resolver gives its items, common_video.rs, lines 267-326:
\* title + ".xml", title + ".mp4", title + ".mp3"
ClipName(title, file_type) ==
    title \o (IF file_type = "Video" THEN <<".", "m", "p", "4">>
              ELSE IF file_type = "Audio" THEN <<".", "m", "p", "3">>
              ELSE <<".", "x", "m", "l">>)

\* the names of create_video_task, create_audio_task and create_danmaku_task,
\* task_utils.rs, lines 5-79: "{title} - {ep_title}" or "{title}", and .mp4,
\* .m4s or .xml
EpisodeName(title, episode_title, file_type) ==
    IF file_type = "Danmaku" THEN title \o <<".", "x", "m", "l">>
    ELSE (IF episode_title = None THEN title
          ELSE title \o <<" ", "-", " ">> \o episode_title[1])
         \o (IF file_type = "Video" THEN <<".", "m", "p", "4">> ELSE <<".", "m", "4", "s">>)

\* a task the post-processor is given: its name, its type, and what the
\* download left at its output_path
PostTask(name, file_type, file) ==
    [name |-> name, file_type |-> file_type, file |-> file]

\* the keys of group_tasks_by_episode, lines 31-77
EpisodeKeys(task) == {extract_episode_key(task[i].name) : i \in DOMAIN task}

\* group_tasks_by_episode, lines 31-77: the tasks of one key, in their order
group_tasks_by_episode(task) ==
    [key \in EpisodeKeys(task) |->
        SelectSeq(task, LAMBDA t : extract_episode_key(t.name) = key)]

\* Path::with_extension("mp4"), line 262: the text after the last dot that is
\* not the first character is the extension that is replaced
with_extension(name) ==
    LET dots == {i \in 2..Len(name) : name[i] = "."}
    IN  (IF dots = {} THEN name
         ELSE SubSeq(name, 1, (CHOOSE i \in dots : \A j \in dots : j <= i) - 1))
        \o <<".", "m", "p", "4">>

\* what the processing of one group did: its result, whether the remuxer
\* (the external ffmpeg) was invoked and for which output, and the task that
\* was moved
Processed(ok, remuxed, output, moved) ==
    [ok |-> ok, remuxed |-> remuxed, output |-> output, moved |-> moved]

\* MediaMerger::merge_av, merger.rs, lines 11-43 and 109-173: FileNotFound
\* for an input that does not exist, otherwise ffmpeg is invoked on the two
\* files
merge_av(video, audio, output, ffmpeg) ==
    IF video.file = "absent" \/ audio.file = "absent"
    THEN Processed(FALSE, FALSE, None, None)
    ELSE Processed(ffmpeg = "ok", TRUE, Some(output), None)

\* move_file_to_output, lines 313-369
move_file_to_output(task) ==
    IF task.file = "absent" THEN Processed(FALSE, FALSE, None, None)
    ELSE Processed(TRUE, FALSE, None, Some(task.name))

\* handle_media_processing, lines 239-294
handle_media_processing(video, audio, config, is_dash_format, is_durl_format, ffmpeg) ==
    IF is_dash_format /\ config.merge /\ config.need_video /\ config.need_audio
    THEN merge_av(video[1], audio[1],
                  with_extension(clean_filename_for_output(video[1].name)), ffmpeg)
    ELSE IF is_durl_format
    THEN move_file_to_output(IF video # None THEN video[1] ELSE audio[1])
    ELSE Processed(TRUE, FALSE, None, None)

\* slice::first
first(list) == IF list = <<>> THEN None ELSE Some(Head(list))

\* process_single_episode, lines 165-236; move_single_file (lines 372-386)
\* moves nothing and returns Ok
process_single_episode(episode_tasks, kind, config, ffmpeg) ==
    LET video_tasks == SelectSeq(episode_tasks, LAMBDA t : t.file_type = "Video")
        audio_tasks == SelectSeq(episode_tasks, LAMBDA t : t.file_type = "Audio")
        is_dash_format == video_tasks # <<>> /\ audio_tasks # <<>>
        is_durl_format == (video_tasks # <<>> /\ audio_tasks = <<>>)
                          \/ (video_tasks = <<>> /\ audio_tasks # <<>>)
    IN  IF kind \in {"CommonVideo", "Bangumi"}
        THEN handle_media_processing(first(video_tasks), first(audio_tasks),
                                     config, is_dash_format, is_durl_format, ffmpeg)
        ELSE Processed(TRUE, FALSE, None, None)

\* what ffmpeg does when it is run: it succeeds, it is not installed, or it
\* exits with an error
FfmpegOutcomes == {"ok", "FfmpegNotFound", "FfmpegError"}

PostNone == [ok |-> FALSE, kind |-> "none"]
PostOk == [ok |-> TRUE, kind |-> "Ok"]
PostErr == [ok |-> FALSE, kind |-> "ParseError"]

\* post_process, lines 11-19: the tasks are grouped
PostProcess ==
    /\ post.pc = "start"
    /\ post' = [post EXCEPT !.pc = IF post.tasks = <<>> THEN "done" ELSE "groups",
                            !.groups = group_tasks_by_episode(post.tasks),
                            !.pending = EpisodeKeys(post.tasks),
                            !.result = IF post.tasks = <<>> THEN PostOk ELSE @]
    /\ UNCHANGED <<core, main, http, wbi, parser, auth>>

\* post_process, lines 21-28: one group of the HashMap, in any order; the
\* first error ends the run (?, line 23)
ProcessSingleEpisode ==
    /\ post.pc = "groups"
    /\ \E key \in post.pending, ffmpeg \in FfmpegOutcomes :
        LET done == process_single_episode(post.groups[key],
                                           post.kind, post.config, ffmpeg)
            left == post.pending \ {key}
        IN  /\ ~done.remuxed => ffmpeg = "ok"
            /\ post' = [post EXCEPT
                  !.pc = IF done.ok /\ left # {} THEN "groups" ELSE "done",
                  !.pending = left,
                  !.handled = @ \cup {key},
                  !.remuxed = IF done.remuxed THEN @ \cup {key} ELSE @,
                  !.outputs = IF done.ok /\ done.output # None
                              THEN @ \cup {done.output[1]} ELSE @,
                  !.moved = IF done.moved # None THEN @ \cup {done.moved[1]} ELSE @,
                  !.result = IF ~done.ok THEN PostErr
                             ELSE IF left = {} THEN PostOk ELSE @]
    /\ UNCHANGED <<core, main, http, wbi, parser, auth>>

\* Path::file_stem and Path::extension of a file name: the text before and
\* after the last dot that is not the first character
split_extension(file) ==
    LET dots == {i \in 2..Len(file) : file[i] = "."}
        last == CHOOSE i \in dots : \A j \in dots : j <= i
    IN  IF dots = {} THEN [stem |-> file, ext |-> None]
        ELSE [stem |-> SubSeq(file, 1, last - 1),
              ext |-> Some(SubSeq(file, last + 1, Len(file)))]

\* move_file_to_output, lines 328-332: the cleaned name of the task with
\* the extension of the source ("mp4" if it has none) in place of its own
target_path(name, source_file) ==
    LET extension == IF split_extension(source_file).ext = None
                     THEN <<"m", "p", "4">>
                     ELSE split_extension(source_file).ext[1]
        stem == split_extension(clean_filename_for_output(name)).stem
    IN  IF extension = <<>> THEN stem ELSE stem \o <<".">> \o extension

\* move_file_to_output, lines 348-355: the candidate of a counter
new_path(target, counter) ==
    LET stem == split_extension(target).stem
        ext == IF split_extension(target).ext = None THEN <<>>
               ELSE split_extension(target).ext[1]
    IN  IF ext = <<>> THEN stem \o <<"_">> \o to_string(counter)
        ELSE stem \o <<"_">> \o to_string(counter) \o <<".">> \o ext

\* a path of the output directory
OutputPath(file) == [dir |-> "output_dir", file |-> file]

\* a variant of the check that takes the plain name although it is taken
MoveFileCheckOverwriting ==
    /\ post.pc = "move"
    /\ LET target == target_path(post.name, post.source.file)
       IN  IF post.source \notin DOMAIN post.fs
           THEN post' = [post EXCEPT !.pc = "moved", !.result = "Err"]
           ELSE \E created \in BOOLEAN :
                  post' = IF ~created
                          THEN [post EXCEPT !.pc = "moved", !.result = "Err"]
                          ELSE [post EXCEPT !.pc = "rename", !.target = target,
                                            !.final_target = target]
    /\ UNCHANGED <<core, main, http, wbi, parser, auth>>

\* move_file_to_output, lines 321-345: the source must exist, the target
\* directory is created, and the target is looked up
MoveFileCheck ==
    /\ post.pc = "move"
    /\ LET target == target_path(post.name, post.source.file)
       IN  IF post.source \notin DOMAIN post.fs
           THEN post' = [post EXCEPT !.pc = "moved", !.result = "Err"]
           ELSE \E created \in BOOLEAN :
                  post' = IF ~created
                          THEN [post EXCEPT !.pc = "moved", !.result = "Err"]
                          ELSE IF OutputPath(target) \in DOMAIN post.fs
                          THEN [post EXCEPT !.pc = "search", !.target = target,
                                            !.counter = 1]
                          ELSE [post EXCEPT !.pc = "rename", !.target = target,
                                            !.final_target = target]
    /\ UNCHANGED <<core, main, http, wbi, parser, auth>>

\* move_file_to_output, lines 347-360: one round of the loop
MoveFileProbe ==
    /\ post.pc = "search"
    /\ LET candidate == new_path(post.target, post.counter)
       IN  post' = IF OutputPath(candidate) \notin DOMAIN post.fs
                   THEN [post EXCEPT !.pc = "rename", !.final_target = candidate]
                   ELSE [post EXCEPT !.counter = post.counter + 1]
    /\ UNCHANGED <<core, main, http, wbi, parser, auth>>

\* move_file_to_output, lines 366-370: fs::rename, which may fail
MoveFileRename ==
    /\ post.pc = "rename"
    /\ \E renamed \in BOOLEAN :
        post' = IF renamed
                THEN [post EXCEPT
                        !.pc = "moved", !.result = "Ok",
                        !.fs = [p \in (DOMAIN post.fs \ {post.source})
                                        \cup {OutputPath(post.final_target)} |->
                                   IF p = OutputPath(post.final_target)
                                   THEN post.fs[post.source] ELSE post.fs[p]]]
                ELSE [post EXCEPT !.pc = "moved", !.result = "Err"]
    /\ UNCHANGED <<core, main, http, wbi, parser, auth>>

----------------------------------------------------------------------------
(* The classifier's bare ids and the options of main *)

\* handle_raw_id, url_parser.rs, lines 62-95: the patterns in their order,
\* each anchored at both ends: the prefix of the id, the class and the
\* length of the rest (0 for one or more), the text that replaces the
\* prefix, and the URL before it
RAW_ID_PATTERNS ==
    << [lit |-> <<"B", "V">>, class |-> Alphanumerics, count |-> BV_ID_LEN,
        keep |-> <<"B", "V">>, url |-> <<"h", "t", "t", "p", "s", ":", "/", "/", "w", "w", "w", ".", "b", "i", "l", "i", "b", "i", "l", "i", ".", "c", "o", "m", "/", "v", "i", "d", "e", "o", "/">>],
       [lit |-> <<"a", "v">>, class |-> Digits, count |-> 0,
        keep |-> <<"a", "v">>, url |-> <<"h", "t", "t", "p", "s", ":", "/", "/", "w", "w", "w", ".", "b", "i", "l", "i", "b", "i", "l", "i", ".", "c", "o", "m", "/", "v", "i", "d", "e", "o", "/">>],
       [lit |-> <<"e", "p">>, class |-> Digits, count |-> 0,
        keep |-> <<"e", "p">>, url |-> <<"h", "t", "t", "p", "s", ":", "/", "/", "w", "w", "w", ".", "b", "i", "l", "i", "b", "i", "l", "i", ".", "c", "o", "m", "/", "b", "a", "n", "g", "u", "m", "i", "/", "p", "l", "a", "y", "/">>],
       [lit |-> <<"s", "s">>, class |-> Digits, count |-> 0,
        keep |-> <<"s", "s">>, url |-> <<"h", "t", "t", "p", "s", ":", "/", "/", "w", "w", "w", ".", "b", "i", "l", "i", "b", "i", "l", "i", ".", "c", "o", "m", "/", "b", "a", "n", "g", "u", "m", "i", "/", "p", "l", "a", "y", "/">>],
       [lit |-> <<"c", "p">>, class |-> Digits, count |-> 0,
        keep |-> <<"e", "p">>, url |-> <<"h", "t", "t", "p", "s", ":", "/", "/", "w", "w", "w", ".", "b", "i", "l", "i", "b", "i", "l", "i", ".", "c", "o", "m", "/", "c", "h", "e", "e", "s", "e", "/", "p", "l", "a", "y", "/">>],
       [lit |-> <<"c", "s">>, class |-> Digits, count |-> 0,
        keep |-> <<"s", "s">>, url |-> <<"h", "t", "t", "p", "s", ":", "/", "/", "w", "w", "w", ".", "b", "i", "l", "i", "b", "i", "l", "i", ".", "c", "o", "m", "/", "c", "h", "e", "e", "s", "e", "/", "p", "l", "a", "y", "/">>] >>

\* handle_raw_id, lines 72-94: the canonical URL of a bare id, or InvalidUrl
handle_raw_id(input) ==
    LET id == trim(input)
        rest == SubSeq(id, 3, Len(id))
        hits == {n \in DOMAIN RAW_ID_PATTERNS :
                    /\ StartsWith(id, RAW_ID_PATTERNS[n].lit)
                    /\ rest # <<>>
                    /\ \A i \in DOMAIN rest : rest[i] \in RAW_ID_PATTERNS[n].class
                    /\ RAW_ID_PATTERNS[n].count > 0
                         => Len(rest) = RAW_ID_PATTERNS[n].count}
        n == CHOOSE n \in hits : \A m \in hits : n <= m
    IN  IF hits = {} THEN None
        ELSE Some(RAW_ID_PATTERNS[n].url \o RAW_ID_PATTERNS[n].keep \o rest)

\* normalize_url, lines 27-45, for an input that is no short link and no
\* mobile link: an absolute URL is kept, anything else is taken as a bare id
normalize_url(input) ==
    IF StartsWith(input, <<"h", "t", "t", "p", "s", ":", "/", "/">>) THEN Some(input) ELSE handle_raw_id(input)

\* create_parser_options, main.rs, lines 101-164: the variant is chosen by
\* the text of the input as the user gave it
create_parser_options(url) ==
    IF \E i \in DOMAIN url : LiteralAt(url, <<"/", "b", "a", "n", "g", "u", "m", "i", "/", "p", "l", "a", "y", "/">>, i)
    THEN "Bangumi"
    ELSE IF \E i \in DOMAIN url : LiteralAt(url, <<"/", "c", "h", "e", "e", "s", "e", "/", "p", "l", "a", "y", "/">>, i)
    THEN "Course"
    ELSE "CommonVideo"

\* main.rs, lines 224-235: the options are built from the input, the input
\* is classified, and the resolver of its kind is run with the options; a
\* resolver that accepts its options goes on to its requests, which
\* succeed or fail
VideoParserParse ==
    /\ parser.pc = "start"
    /\ parser.op = "dispatch"
    /\ LET options == create_parser_options(parser.input)
           url == normalize_url(parser.input)
           url_type == IF url = None THEN UnsupportedFormat
                       ELSE extract_video_type(url[1])
           resolver == get_detail_parser(url_type.kind)
       IN  \E rest \in {"Ok", "NetworkError", "ParseError"} :
             parser' = [parser EXCEPT
                          !.pc = "done", !.options = options,
                          !.kind = url_type.kind, !.resolver = resolver,
                          !.result =
                              IF url = None THEN "InvalidUrl"
                              ELSE IF ~url_type.ok THEN "UnsupportedFormat"
                              ELSE IF resolver = None THEN "UnsupportedType"
                              ELSE IF options # resolver[1] THEN "InvalidOptions"
                              ELSE rest]
    /\ UNCHANGED <<core, main, http, wbi, auth, post>>

----------------------------------------------------------------------------
(* main and VideoDownloader (src/src/main.rs, src/src/downloader/mod.rs) *)

\* main returns Err (the process exits with code 1) or Ok (code 0)
Exit(code) == [main EXCEPT !.pc = "exited", !.exit = code]

\* main.rs, lines 191-219: the authentication, and the login-only run
MainAuth ==
    /\ main.pc = "start"
    /\ \E asked \in BOOLEAN, ok \in BOOLEAN :
        main' = IF asked /\ ~ok THEN Exit(1)
                ELSE IF main.login_only THEN Exit(0)
                ELSE [main EXCEPT !.pc = "client"]
    /\ UNCHANGED <<core, http, wbi, parser, auth, post>>

\* main.rs, line 221: get_authed_client(session_id).await?
MainClient ==
    /\ main.pc = "client"
    /\ \E ok \in BOOLEAN :
        main' = IF ok THEN [main EXCEPT !.pc = "parse"] ELSE Exit(1)
    /\ UNCHANGED <<core, http, wbi, parser, auth, post>>

\* variant of ParseOutcome: a failed resolve is logged and the run goes on
ParseOutcomeLogged(r, stream_type) ==
    [main EXCEPT !.pc = "prepare", !.resolve = r, !.stream_type = stream_type]

\* main.rs, lines 229-235: parser.parse(..).await.map_err(..)?
ParseOutcome(r, stream_type) ==
    IF r = "Ok"
    THEN [main EXCEPT !.pc = "prepare", !.resolve = r, !.stream_type = stream_type]
    ELSE [Exit(1) EXCEPT !.resolve = r]

\* main.rs, lines 226-239: the resolve step
MainParse ==
    /\ main.pc = "parse"
    /\ \E r \in {"Ok", "Err"}, stream_type \in {"Dash", "Flv"} :
        main' = ParseOutcome(r, stream_type)
    /\ UNCHANGED <<core, http, wbi, parser, auth, post>>

\* main.rs, lines 241-242: prepare_download_env(&args).await?
MainPrepare ==
    /\ main.pc = "prepare"
    /\ \E ok \in BOOLEAN :
        main' = IF ok THEN [main EXCEPT !.pc = "download"] ELSE Exit(1)
    /\ UNCHANGED <<core, http, wbi, parser, auth, post>>

\* main.rs, lines 246-248, and mod.rs, lines 35-59, 86-90: the downloader is
\* built, the directories are made and the first file is asked for
Download ==
    /\ main.pc = "download"
    /\ \E ok \in BOOLEAN :
        main' = IF ok \/ main.stream_type = "Flv"
                THEN [main EXCEPT !.pc = "add", !.file = 1] ELSE Exit(1)
    /\ UNCHANGED <<core, http, wbi, parser, auth, post>>

\* mod.rs, line 96: download_file calls add_task, which waits for a permit
DownloadFileAdd ==
    /\ main.pc = "add"
    /\ AddTaskAcquire(main.file)
    /\ main' = [main EXCEPT !.pc = "probe"]
    /\ UNCHANGED <<http, wbi, parser, auth, post>>

\* mod.rs, line 96: add_task(..).await? returns the task id or the error
DownloadFileProbe ==
    /\ main.pc = "probe"
    /\ AddTaskFinish(main.file)
    /\ main' = IF calls'[main.file].result = "Ok"
               THEN [main EXCEPT !.pc = "poll", !.task_id = calls'[main.file].task_id]
               ELSE Exit(1)
    /\ UNCHANGED <<http, wbi, parser, auth, post>>

\* mod.rs, lines 98-104: the loop leaves only on Completed
PollDone(status) == status = "Completed"

\* where download goes after a file: the audio after the video of a DASH
\* clip, then the merge; an FLV clip has one file (mod.rs, lines 61-93)
AfterFile(stream_type, file) ==
    IF stream_type = "Dash"
    THEN (IF file = 1 THEN [pc |-> "add", file |-> 2] ELSE [pc |-> "merge", file |-> 0])
    ELSE [pc |-> "post", file |-> 0]

\* mod.rs, lines 98-110: one round of the polling loop of download_file; a
\* round that does not see Completed sleeps and changes nothing
DownloadFilePoll ==
    /\ main.pc = "poll"
    /\ PollDone(tasks[main.task_id].status)
    /\ LET n == AfterFile(main.stream_type, main.file)
       IN  main' = [main EXCEPT !.pc = n.pc, !.file = n.file, !.task_id = 0]
    /\ UNCHANGED <<core, http, wbi, parser, auth, post>>

\* mod.rs, lines 71-83: merger.merge_av(..).await?
Merge ==
    /\ main.pc = "merge"
    /\ \E ok \in BOOLEAN :
        main' = IF ok THEN [main EXCEPT !.pc = "post"] ELSE Exit(1)
    /\ UNCHANGED <<core, http, wbi, parser, auth, post>>

\* main.rs, lines 250-262: a post-processing error is logged, main returns Ok
MainPostProcess ==
    /\ main.pc = "post"
    /\ \E ok \in BOOLEAN : main' = Exit(0)
    /\ UNCHANGED <<core, http, wbi, parser, auth, post>>

----------------------------------------------------------------------------
(* Scenarios and specifications *)

\* a pre-existing destination: absent (-1) or the first pre bytes of the resource
InitialFile(item) ==
    IF item.pre < 0 THEN [exists |-> FALSE, data |-> <<>>]
    ELSE [exists |-> TRUE, data |-> SubSeq(Source(item.len), 1, item.pre)]

\* the answers of a failing network to a GET: 0 is a request that could not
\* be sent
FailureStatuses == {0, 401, 403, 404, 429, 500}

\* a server whose HEAD answers with the size or without it, or refuses
PlainHeads == {h \in HeadAnswers : h.status \in {200, 403} /\ ~h.html}

\* short resources, on a server that honours Range and on one that ignores
\* it; an Audio request differs from a Video one only while nothing is on disk
ShortItems ==
    {i \in [file_type : {"Video", "Audio"}, len : 1..MaxLen, ranges : BOOLEAN,
            chunk : {MaxChunk}, faults : {MAX_RETRIES, IgnoredFaults},
            pre : -1..MaxLen, statuses : {FailureStatuses}, heads : {PlainHeads}] :
        /\ i.pre <= i.len
        /\ i.faults = IF i.ranges THEN MAX_RETRIES ELSE IgnoredFaults
        /\ i.file_type = "Audio" => i.ranges /\ i.pre <= 0}

\* every answer to the probe, for a one-byte resource
ProbeItems ==
    [file_type : {"Video", "Danmaku", "Image"}, len : {1}, ranges : {TRUE},
     chunk : {MaxChunk}, faults : {1}, pre : {-1},
     statuses : {FailureStatuses}, heads : {HeadAnswers}]

\* a resource long enough for the periodic progress update
LongItems ==
    [file_type : {"Video"}, len : {LongLen}, ranges : {TRUE},
     chunk : {1}, faults : {LongFaults}, pre : {-1}, statuses : {{403}},
     heads : {PlainHeads}]

\* the items of the pool scenarios
PoolItems ==
    [file_type : {"Video"}, len : {PoolLen}, ranges : {TRUE},
     chunk : {MaxChunk}, faults : {PoolFaults}, pre : {-1}, statuses : {{403}},
     heads : {HeadAnswers}]
    \cup [file_type : {"Danmaku"}, len : {1}, ranges : {TRUE},
          chunk : {MaxChunk}, faults : {0}, pre : {-1}, statuses : {{403}},
          heads : {HeadAnswers}]

\* the parts of the program that a scenario does not run
MainOff == [pc |-> "off"]
HttpOff == [pc |-> "off"]
WbiOff == [pc |-> "off"]
ParserOff == [pc |-> "off"]

AuthOff == [pc |-> "off"]

PostOff == [pc |-> "off"]

InitWith(concurrency, its) ==
    /\ max_concurrent = concurrency
    /\ items = its
    /\ calls = [c \in DOMAIN its |->
                   [pc |-> "idle", result |-> "none", task_id |-> 0,
                    refused |-> 0, size_from |-> "none"]]
    /\ tasks = <<>>
    /\ run = <<>>
    /\ log = <<>>
    /\ files = [c \in DOMAIN its |-> InitialFile(its[c])]
    /\ faults = [c \in DOMAIN its |-> 0]

\* the pool: several add_task calls on one download core
Init ==
    /\ \E concurrency \in 1..MaxConcurrent, its \in [1..MaxTasks -> PoolItems] :
        InitWith(concurrency, its)
    /\ main = MainOff /\ http = HttpOff /\ wbi = WbiOff /\ parser = ParserOff
    /\ auth = AuthOff /\ post = PostOff

\* one work item, in every scenario
InitOne ==
    /\ \E its \in [{1} -> ShortItems \cup ProbeItems \cup LongItems] : InitWith(1, its)
    /\ main = MainOff /\ http = HttpOff /\ wbi = WbiOff /\ parser = ParserOff
    /\ auth = AuthOff /\ post = PostOff

Runner(id) ==
    /\ UNCHANGED front
    /\ \/ RunStart(id)
       \/ BinaryBegin(id)
       \/ Request(id)
       \/ Chunk(id)
       \/ StreamFault(id)
       \/ StreamEnd(id)
       \/ AttemptEnd(id)
       \/ Fetch(id)
       \/ RunFinish(id)

Next ==
    \/ \E c \in DOMAIN calls : AddTaskAcquire(c) /\ UNCHANGED front
    \/ \E c \in DOMAIN calls : AddTaskFinish(c) /\ UNCHANGED front
    \/ \E id \in DOMAIN tasks : RunStart(id) /\ UNCHANGED front
    \/ \E id \in DOMAIN tasks : BinaryBegin(id) /\ UNCHANGED front
    \/ \E id \in DOMAIN tasks : Request(id) /\ UNCHANGED front
    \/ \E id \in DOMAIN tasks : Chunk(id) /\ UNCHANGED front
    \/ \E id \in DOMAIN tasks : StreamFault(id) /\ UNCHANGED front
    \/ \E id \in DOMAIN tasks : StreamEnd(id) /\ UNCHANGED front
    \/ \E id \in DOMAIN tasks : AttemptEnd(id) /\ UNCHANGED front
    \/ \E id \in DOMAIN tasks : Fetch(id) /\ UNCHANGED front
    \/ \E id \in DOMAIN tasks : RunFinish(id) /\ UNCHANGED front

Spec == Init /\ [][Next]_vars

SpecOne == InitOne /\ [][Next]_vars

\* the pool with its scheduling: the semaphore of tokio serves its waiters
\* in order, and a call that holds a permit runs on to its return
FairPool ==
    Spec /\ \A c \in 1..MaxTasks :
                /\ SF_vars(AddTaskAcquire(c) /\ UNCHANGED front)
                /\ WF_vars(AddTaskFinish(c) /\ UNCHANGED front)

\* the runtime polls every spawned runner, and every request, chunk wait and
\* file operation of a runner ends (the chunk wait by its 60 s timeout)
FairOne == InitOne /\ [][Next]_vars /\ \A id \in TaskIds : WF_vars(id \in DOMAIN tasks /\ Runner(id))

\* a resource whose HEAD probe the server answers with 404
FallbackItems ==
    [file_type : {"Video", "Danmaku"}, len : {MaxLen}, ranges : {TRUE},
     chunk : {MaxChunk}, faults : {1}, pre : {-1},
     statuses : {FailureStatuses},
     heads : {{h \in HeadAnswers : h.status = 404}}]

\* one work item behind a server without HEAD
InitFallback ==
    /\ \E its \in [{1} -> FallbackItems] : InitWith(1, its)
    /\ main = MainOff /\ http = HttpOff /\ wbi = WbiOff /\ parser = ParserOff
    /\ auth = AuthOff /\ post = PostOff

SpecFallback == InitFallback /\ [][Next]_vars

\* the files of one clip, as main's downloader asks for them: the video
\* stream, then the audio stream
MainItems(file_type) ==
    [file_type : {file_type}, len : {PoolLen}, ranges : {TRUE},
     chunk : {MaxChunk}, faults : {PoolFaults}, pre : {-1},
     statuses : {{403, 500}}, heads : {PlainHeads}]

\* one run of the program
InitMain ==
    /\ \E v \in MainItems("Video"), a \in MainItems("Audio") :
        InitWith(MAIN_CONCURRENCY, <<v, a>>)
    /\ \E login_only \in BOOLEAN,
          concurrency \in {1, DEFAULT_CONCURRENCY, MAIN_CONCURRENCY} :
        main = [pc |-> "start", exit |-> -1, login_only |-> login_only,
                concurrency |-> concurrency,
                resolve |-> "none", stream_type |-> "none", file |-> 0, task_id |-> 0]
    /\ http = HttpOff /\ wbi = WbiOff /\ parser = ParserOff /\ auth = AuthOff /\ post = PostOff

NextMain ==
    \/ MainAuth
    \/ MainClient
    \/ MainParse
    \/ MainPrepare
    \/ Download
    \/ DownloadFileAdd
    \/ DownloadFileProbe
    \/ DownloadFilePoll
    \/ Merge
    \/ MainPostProcess
    \/ \E id \in DOMAIN tasks : RunStart(id) /\ UNCHANGED front
    \/ \E id \in DOMAIN tasks : BinaryBegin(id) /\ UNCHANGED front
    \/ \E id \in DOMAIN tasks : Request(id) /\ UNCHANGED front
    \/ \E id \in DOMAIN tasks : Chunk(id) /\ UNCHANGED front
    \/ \E id \in DOMAIN tasks : StreamFault(id) /\ UNCHANGED front
    \/ \E id \in DOMAIN tasks : StreamEnd(id) /\ UNCHANGED front
    \/ \E id \in DOMAIN tasks : AttemptEnd(id) /\ UNCHANGED front
    \/ \E id \in DOMAIN tasks : RunFinish(id) /\ UNCHANGED front

SpecMain == InitMain /\ [][NextMain]_vars

\* the parameter maps, values and keys of the signing scenarios
ParamKeys == {<<"a">>, <<"z">>, <<"w", "t", "s">>}

ParamValues == {<<"1">>, <<"!", "&">>}

ParamMaps ==
    UNION {[ks -> ParamValues] : ks \in {k \in SUBSET ParamKeys : Cardinality(k) <= MaxParams}}

WbiKeys == {<<"k", "1">>, <<"2">>}

\* calls of the signing helper, some in the same second
InitSign ==
    /\ InitWith(1, <<>>)
    /\ \E params \in ParamMaps, img_key \in WbiKeys, sub_key \in WbiKeys,
          now \in {MaxClock - 1} :
        wbi = [pc |-> "on", params |-> params, img_key |-> img_key,
               sub_key |-> sub_key, now |-> now, calls |-> <<>>]
    /\ main = MainOff /\ http = HttpOff /\ parser = ParserOff /\ auth = AuthOff /\ post = PostOff

NextSign ==
    \/ EncWbi
    \/ Tick

SpecSign == InitSign /\ [][NextSign]_vars

\* one operation of the client: a GET, a POST or a signed GET
InitClient ==
    /\ InitWith(1, <<>>)
    /\ \E op \in {"get", "post", "get_auto"}, T \in {"Value", "CommonResponse"},
          params \in ParamMaps :
        /\ op # "get_auto" => params = <<>>
        /\ http = [pc |-> "start", op |-> op, T |-> T, params |-> params,
                   requests |-> <<>>, keys |-> NoKeys, sent |-> FALSE,
                   resp |-> NoResponse, result |-> Failure("none"),
                   failure |-> NotResolved]
    /\ main = MainOff /\ wbi = WbiOff /\ parser = ParserOff /\ auth = AuthOff /\ post = PostOff

NextClient ==
    \/ ClientCall
    \/ GetWbiKeys
    \/ GetAuto
    \/ ResolverRequest

SpecClient == InitClient /\ [][NextClient]_vars

\* the inputs of the range parser: the strings over the characters of the
\* grammar, a sign and a letter
RangeChars == {"0", "1", ",", "-", "+", "x"}

RangeStrings == UNION {[1..n -> RangeChars] : n \in 0..MaxRangeLen}

\* the lists of streams of a response: base_url is the position in the list
StreamLists(len, ids, bandwidths) ==
    UNION {{[i \in 1..n |-> [id |-> f[i].id, bandwidth |-> f[i].bandwidth,
                             base_url |-> i]] :
               f \in [1..n -> [id : ids, bandwidth : bandwidths]]} :
           n \in 0..len}

\* the playback responses: dash absent or present with its two lists, durl
\* absent, empty or with segments
PlayData ==
    [dash : {None} \cup
            {Some([video |-> v, audio |-> a]) :
                v \in StreamLists(MaxDashStreams, {32, 80}, {1}),
                a \in StreamLists(MaxDashStreams, {30216}, {1, 2})},
     durl : {None, Some(<<>>), Some(<<1>>), Some(<<1, 2>>)}]

PlayResponses ==
    {[kind |-> "NetworkError", code |-> 0, data |-> None],
     [kind |-> "Ok", code |-> -404, data |-> None],
     [kind |-> "Ok", code |-> 0, data |-> None]}
    \cup {[kind |-> "Ok", code |-> 0, data |-> Some(d)] : d \in PlayData}

DownloadConfigs ==
    [need_video : BOOLEAN, need_audio : BOOLEAN, need_danmaku : BOOLEAN,
     resolution : {64}]

\* the clip URLs: .../video/BV and an identifier, then nothing, a slash, or
\* a slash and a query string
VideoUrlPrefix ==
    <<"h", "t", "t", "p", "s", ":", "/", "/", "w", "w", "w", ".", "b", "i",
      "l", "i", "b", "i", "l", "i", ".", "c", "o", "m", "/", "v", "i", "d",
      "e", "o", "/">>

IdChars == {"1", "N"}

UrlSuffixes ==
    {<<>>, <<"/">>,
     <<"/", "?", "v", "d", "_", "s", "o", "u", "r", "c", "e", "=", "e",
       "b", "1">>}

ClipUrls ==
    {VideoUrlPrefix \o <<"B", "V">> \o id \o suffix :
        id \in [1..BV_ID_LEN -> IdChars], suffix \in UrlSuffixes}

\* URLs of the other kinds, and one of no kind
OtherUrls ==
    {<<"h", "t", "t", "p", "s", ":", "/", "/", "w", "w", "w", ".", "b",
       "i", "l", "i", "b", "i", "l", "i", ".", "c", "o", "m", "/", "v",
       "i", "d", "e", "o", "/", "a", "v", "1", "7", "0", "0", "0", "1">>,
     <<"h", "t", "t", "p", "s", ":", "/", "/", "w", "w", "w", ".", "b",
       "i", "l", "i", "b", "i", "l", "i", ".", "c", "o", "m", "/", "b",
       "a", "n", "g", "u", "m", "i", "/", "p", "l", "a", "y", "/", "s",
       "s", "8", "0", "5", "1", "2">>,
     <<"h", "t", "t", "p", "s", ":", "/", "/", "w", "w", "w", ".", "b",
       "i", "l", "i", "b", "i", "l", "i", ".", "c", "o", "m", "/", "b",
       "a", "n", "g", "u", "m", "i", "/", "p", "l", "a", "y", "/", "e",
       "p", "2", "1">>,
     <<"h", "t", "t", "p", "s", ":", "/", "/", "w", "w", "w", ".", "b",
       "i", "l", "i", "b", "i", "l", "i", ".", "c", "o", "m", "/", "c",
       "h", "e", "e", "s", "e", "/", "p", "l", "a", "y", "/", "e", "p",
       "1", "2">>,
     <<"h", "t", "t", "p", "s", ":", "/", "/", "w", "w", "w", ".", "b",
       "i", "l", "i", "b", "i", "l", "i", ".", "c", "o", "m", "/", "c",
       "h", "e", "e", "s", "e", "/", "p", "l", "a", "y", "/", "s", "s",
       "3">>,
     <<"h", "t", "t", "p", "s", ":", "/", "/", "l", "i", "v", "e", ".",
       "b", "i", "l", "i", "b", "i", "l", "i", ".", "c", "o", "m", "/",
       "2", "2">>,
     <<"h", "t", "t", "p", "s", ":", "/", "/", "w", "w", "w", ".", "b",
       "i", "l", "i", "b", "i", "l", "i", ".", "c", "o", "m", "/", "r",
       "e", "a", "d", "/", "c", "v", "7">>,
     <<"h", "t", "t", "p", "s", ":", "/", "/", "w", "w", "w", ".", "b",
       "i", "l", "i", "b", "i", "l", "i", ".", "c", "o", "m", "/">>}

NoStreams == <<>>

ParserStart(op) ==
    [pc |-> "start", op |-> op, range_str |-> <<>>, range |-> RangeErr,
     streams |-> NoStreams, resolution |-> 0, selected |-> SelectErr,
     config |-> [need_video |-> FALSE, need_audio |-> FALSE,
                 need_danmaku |-> FALSE, resolution |-> 64],
     resp |-> [kind |-> "NetworkError", code |-> 0, data |-> None],
     meta |-> MetaErr, url |-> <<>>, url_type |-> UnsupportedFormat]

\* one call of the range parser, of a selector or of create_video_meta
InitParser ==
    /\ InitWith(1, <<>>)
    /\ \/ \E range_str \in RangeStrings :
            parser = [ParserStart("range") EXCEPT !.range_str = range_str]
       \/ \E streams \in StreamLists(MaxStreams, {32, 64, 80}, {1, 2}),
             resolution \in {16, 64, 112} :
            parser = [ParserStart("video") EXCEPT !.streams = streams,
                                                  !.resolution = resolution]
       \/ \E streams \in StreamLists(MaxStreams, {32, 64, 80}, {1, 2}) :
            parser = [ParserStart("audio") EXCEPT !.streams = streams]
       \/ \E config \in DownloadConfigs, resp \in PlayResponses :
            parser = [ParserStart("meta") EXCEPT !.config = config, !.resp = resp]
       \/ \E url \in ClipUrls \cup OtherUrls :
            parser = [ParserStart("classify") EXCEPT !.url = url]
    /\ main = MainOff /\ http = HttpOff /\ wbi = WbiOff /\ auth = AuthOff /\ post = PostOff

NextParser ==
    \/ ParseEpisodeRange
    \/ SelectVideoStream
    \/ SelectAudioStream
    \/ CreateVideoMeta
    \/ ExtractVideoType

SpecParser == InitParser /\ [][NextParser]_vars

\* the clients, each with its cookie jar
Clients == {"jar_a", "jar_b"}

Stores ==
    UNION {[ids -> Clients] : ids \in {S \in SUBSET SessionIds : Cardinality(S) <= MaxSessions}}

\* one operation on a session store: create_session, or a QR login
InitAuth ==
    /\ InitWith(1, <<>>)
    /\ \E sessions \in Stores, op \in {"create", "qr"}, session_id \in SessionIds,
          client \in Clients, budget \in 0..MaxPolls :
        /\ op = "create" => budget = 0
        /\ op = "qr" => session_id = 1
        /\ auth = [pc |-> "start", op |-> op,
                   store |-> [sessions |-> sessions, files |-> sessions],
                   before |-> sessions,
                   session_id |-> session_id, client |-> client,
                   budget |-> budget, polls |-> <<>>, result |-> NoResult]
    /\ main = MainOff /\ http = HttpOff /\ wbi = WbiOff /\ parser = ParserOff
    /\ post = PostOff

NextAuth ==
    \/ CreateSession
    \/ CheckQrLoginStatus
    \/ QrPoll

SpecAuth == InitAuth /\ [][NextAuth]_vars

\* the titles of the clips, and the title of the season
ClipTitles == {<<"a", "b">>, <<"E", "P", "1">>}

SeasonTitle == <<"a", "b">>

\* the titles of the episodes of a season: none, or a title with or
\* without a trailing number
EpisodeTitles == <<None, Some(<<"E", "P", "1">>), Some(<<"E", "P", "2", " ", "-", " ", "7">>)>>

PostConfigs == [merge : BOOLEAN, need_video : BOOLEAN, need_audio : BOOLEAN]

\* what a download leaves at the output path of a task
FileStates == {"absent", "partial", "complete"}

\* the types of the items of one episode: a Danmaku item or none, a Video
\* item if need_video, and an Audio item if need_audio and the streams are
\* separate (DASH)
ItemTypes(config, dash, danmaku) ==
    (IF danmaku THEN <<"Danmaku">> ELSE <<>>)
    \o (IF config.need_video THEN <<"Video">> ELSE <<>>)
    \o (IF config.need_audio /\ dash THEN <<"Audio">> ELSE <<>>)

\* the episodes of a run: the one clip, or up to MaxEpisodes episodes of a
\* season, in the order of the season
EpisodeLists(kind) ==
    IF kind = "CommonVideo" THEN {<<None>>}
    ELSE {[i \in 1..Len(at) |-> EpisodeTitles[at[i]]] :
            at \in {a \in UNION {[1..n -> DOMAIN EpisodeTitles] : n \in 1..MaxEpisodes} :
                       \A i, j \in DOMAIN a : i < j => a[i] < a[j]}}

\* one run of the post-processor on the items of a clip or of a season
InitPost ==
    /\ InitWith(1, <<>>)
    /\ \E kind \in {"CommonVideo", "Bangumi", "Course"}, config \in PostConfigs,
          dash \in BOOLEAN, danmaku \in BOOLEAN, title \in ClipTitles :
        \E eps \in EpisodeLists(kind) :
            LET types == ItemTypes(config, dash, danmaku)
                width == Len(types)
                count == Len(eps) * width
            IN  /\ kind # "CommonVideo" => title = SeasonTitle
                /\ \E state \in [1..count -> FileStates] :
                    /\ \A i \in 1..count :
                          types[((i - 1) % width) + 1] = "Danmaku" => state[i] = "complete"
                    /\ post = [pc |-> "start", kind |-> kind, config |-> config,
                               tasks |->
                                 [i \in 1..count |->
                                    LET ep == eps[((i - 1) \div width) + 1]
                                        type == types[((i - 1) % width) + 1]
                                    IN  PostTask(IF kind = "CommonVideo"
                                                 THEN ClipName(title, type)
                                                 ELSE EpisodeName(title, ep, type),
                                                 type, state[i])],
                               groups |-> << >>, pending |-> {}, handled |-> {}, remuxed |-> {},
                               outputs |-> {}, moved |-> {}, result |-> PostNone]
    /\ main = MainOff /\ http = HttpOff /\ wbi = WbiOff /\ parser = ParserOff
    /\ auth = AuthOff

NextPost ==
    \/ PostProcess
    \/ ProcessSingleEpisode

SpecPost == InitPost /\ [][NextPost]_vars

\* a season: the platform ids of its episodes array, in the array's order
SeasonIds == {1, 2, 7}

Seasons ==
    UNION {{s \in [1..n -> SeasonIds] : \A i, j \in 1..n : s[i] = s[j] => i = j} :
           n \in 0..MaxSeasonLen}

\* the parts option: absent, or a range of episode numbers
SeasonRanges ==
    {None, Some(<<"1">>), Some(<<"2">>), Some(<<"1", ",", "2">>),
     Some(<<"1", "-", "3">>), Some(<<"7">>), Some(<<"x">>)}

\* the answers of the playurl request of an episode: a DASH answer, a durl
\* answer, an answer without source, an error
PlayAnswers == {"dash", "durl", "none", "error"}

\* one resolve of an episode or of a season of a course or of a show, with
\* the options of its resolver
InitSeason ==
    /\ InitWith(1, <<>>)
    /\ \E kind \in {"CourseEpisode", "CourseSeason", "BangumiEpisode", "BangumiSeason"},
          season \in {None} \cup {Some(s) : s \in Seasons},
          range \in SeasonRanges,
          id \in SeasonIds,
          plays \in [1..MaxSeasonLen -> PlayAnswers] :
        /\ kind \in {"CourseEpisode", "BangumiEpisode"} => range = None
        /\ kind \in {"CourseSeason", "BangumiSeason"} => id = 1
        /\ parser = [pc |-> "start", op |-> "season", kind |-> kind, id |-> id,
                     options |-> get_detail_parser(kind)[1], season |-> season,
                     range |-> range, plays |-> plays, result |-> SeasonErr("none")]
    /\ main = MainOff /\ http = HttpOff /\ wbi = WbiOff /\ auth = AuthOff /\ post = PostOff

NextSeason == ParseWithOptions

SpecSeason == InitSeason /\ [][NextSeason]_vars

\* the answers of the view request: an error of the client, an envelope
\* with an error code, one without data, and the data of a clip, with or
\* without redirect_url (the URL is named by a number)
ViewResponses ==
    {[kind |-> "NetworkError", code |-> 0, data |-> None],
     [kind |-> "Ok", code |-> -404, data |-> None],
     [kind |-> "Ok", code |-> 0, data |-> None]}
    \cup {[kind |-> "Ok", code |-> 0,
           data |-> Some([redirect_url |-> r, cid |-> 1])] :
             r \in {None, Some(1), Some(2)}}

\* one resolve of a clip
InitClip ==
    /\ InitWith(1, <<>>)
    /\ \E config \in DownloadConfigs, view \in ViewResponses, resp \in PlayResponses :
        parser = [pc |-> "start", op |-> "clip", config |-> config, view |-> view,
                  resp |-> resp,
                  result |-> [ok |-> FALSE, kind |-> "none", url |-> None,
                              requests |-> 0, download_items |-> <<>>]]
    /\ main = MainOff /\ http = HttpOff /\ wbi = WbiOff /\ auth = AuthOff /\ post = PostOff

NextClip == CommonVideoParse

SpecClip == InitClip /\ [][NextClip]_vars

\* the names of the tasks that are moved
MoveNames == {<<"a">>, <<"a", "_", "1">>, <<"a", ".", "b">>}

\* the source of the move: a file of the download directory, or the file
\* that already lies at the target
MoveSources ==
    {[dir |-> "download_dir", file |-> f] : f \in {<<"a", ".", "m", "p", "4">>, <<"a">>, <<"x", ".", "m", "4", "s">>}}
    \cup {OutputPath(<<"a", ".", "m", "p", "4">>)}

\* the files that the output directory may hold before the move
OutputFiles == {<<"a", ".", "m", "p", "4">>,
                <<"a", "_", "1", ".", "m", "p", "4">>,
                <<"a", "_", "2", ".", "m", "p", "4">>,
                <<"a", "_", "1", "_", "1", ".", "m", "p", "4">>,
                <<"a", ".", "m", "4", "s">>,
                <<"a", "_", "1", ".", "m", "4", "s">>}

\* one move: the file system holds some files of the output directory and
\* perhaps the source; the content of a file is the path it was written to
InitMove ==
    /\ InitWith(1, <<>>)
    /\ \E name \in MoveNames, source \in MoveSources, held \in SUBSET OutputFiles,
          exists \in BOOLEAN :
        LET paths == {OutputPath(f) : f \in held}
                     \cup (IF exists THEN {source} ELSE {})
            fs == [p \in paths |-> p]
        IN  post = [pc |-> "move", name |-> name, source |-> source, fs |-> fs,
                    before |-> fs, target |-> <<>>, counter |-> 0,
                    final_target |-> <<>>, result |-> "none"]
    /\ main = MainOff /\ http = HttpOff /\ wbi = WbiOff /\ parser = ParserOff
    /\ auth = AuthOff

NextMove == MoveFileCheck \/ MoveFileProbe \/ MoveFileRename

SpecMove == InitMove /\ [][NextMove]_vars

\* the move is a sequential function: it runs on
FairMove == SpecMove /\ WF_vars(NextMove)

\* the bare ids: a clip id for every identifier, one id of each other kind,
\* one between spaces, and one of no kind
BareIds ==
    {<<"B", "V">> \o id : id \in [1..BV_ID_LEN -> IdChars]}
    \cup {<<"a", "v", "1", "7", "0", "0", "0", "1">>,
          <<"e", "p", "2", "1">>,
          <<"s", "s", "8", "0", "5", "1", "2">>,
          <<"c", "p", "1", "2">>,
          <<"c", "s", "3">>,
          <<" ", "e", "p", "2", "1", " ">>,
          <<"x", "x", "9">>}

\* one input of the user: a canonical URL or a bare id
InitDispatch ==
    /\ InitWith(1, <<>>)
    /\ \E input \in ClipUrls \cup OtherUrls \cup BareIds :
        parser = [pc |-> "start", op |-> "dispatch", input |-> input,
                  options |-> "none", kind |-> "none", resolver |-> None,
                  result |-> "none"]
    /\ main = MainOff /\ http = HttpOff /\ wbi = WbiOff /\ auth = AuthOff /\ post = PostOff

NextDispatch == VideoParserParse

SpecDispatch == InitDispatch /\ [][NextDispatch]_vars

TypeOK ==
    /\ max_concurrent \in 1..MaxConcurrent \cup {MAIN_CONCURRENCY}
    /\ DOMAIN tasks \subseteq TaskIds
    /\ \A id \in DOMAIN tasks :
        /\ tasks[id].status \in {"Queued", "Downloading"} \cup Terminal
        /\ tasks[id].downloaded \in Nat
        /\ tasks[id].total_size \in Nat

----------------------------------------------------------------------------
(* Properties *)

IsBinary(id) == for_file_type(run[id].file_type) = "BinaryStream"

Downloading == {id \in DOMAIN tasks : tasks[id].status = "Downloading"}

\* C1: once the status of a task is terminal (Completed, Failed, Skipped,
\* Error), no step of the download core changes it or removes the task.
C1_TerminalIsStable ==
    [][\A id \in DOMAIN tasks :
          tasks[id].status \in Terminal
              => id \in DOMAIN tasks' /\ tasks'[id].status = tasks[id].status]_vars

\* a task has ended while another add_task call is still in progress
C1_Witness ==
    \E id \in DOMAIN tasks, c \in DOMAIN calls :
        tasks[id].status \in Terminal /\ calls[c].pc = "acquired"

\* C2: a task enters the table in status Queued, and a step changes the
\* status of a task only from Queued to Downloading or from Downloading to a
\* terminal status.
C2_StatusMachine ==
    [][\A id \in DOMAIN tasks' :
          IF id \notin DOMAIN tasks
          THEN tasks'[id].status = "Queued"
          ELSE \/ tasks'[id].status = tasks[id].status
               \/ tasks[id].status = "Queued" /\ tasks'[id].status = "Downloading"
               \/ tasks[id].status = "Downloading" /\ tasks'[id].status \in Terminal]_vars

\* a task went through the whole machine
C2_Witness ==
    \E id \in DOMAIN tasks : tasks[id].status = "Completed" /\ Len(log[id]) >= 1

\* C3: at most max_concurrent tasks are in status Downloading at any moment
\* (with max_concurrent = 1: one at a time, as in serial execution).
C3_AtMostConcurrencyDownloading == Cardinality(Downloading) <= max_concurrent

\* C4: a RateLimited attempt is the last attempt of its task, and the task
\* ends Skipped: it is never Error or Failed.
C4_RateLimitedIsTerminal ==
    \A id \in DOMAIN tasks :
        \A i \in 1..Len(log[id]) :
            log[id][i] = "RateLimited"
                => /\ i = Len(log[id])
                   /\ run[id].pc \in {"finish", "done"}
                   /\ tasks[id].status \in {"Downloading", "Skipped"}
                   /\ run[id].pc = "done" => tasks[id].status = "Skipped"

\* a task was skipped on a refusal that followed an interrupted attempt
C4_Witness ==
    \E id \in DOMAIN tasks :
        /\ tasks[id].status = "Skipped"
        /\ Len(log[id]) >= 2
        /\ log[id][Len(log[id])] = "RateLimited"

\* C5: a call whose probe (HEAD or fallback GET) was answered 401, 403 or 429
\* is classified RateLimited and its work item is a task of the table (that
\* ends Skipped); a task whose streaming GET was refused ends Skipped.
C5_RefusalSkipsTheItem ==
    /\ \A c \in DOMAIN calls :
        calls[c].pc = "returned" /\ calls[c].refused \in Refusals
            => /\ calls[c].result = "RateLimited"
               /\ \E id \in DOMAIN tasks : tasks[id].call = c
    /\ \A id \in DOMAIN tasks :
        run[id].pc = "done" /\ Len(log[id]) >= 1
                /\ log[id][Len(log[id])] = "RateLimited"
            => tasks[id].status = "Skipped"

\* the retry policy as it shows in the history of a BinaryStream task
C6_RetryPolicy ==
    \A id \in DOMAIN tasks :
        IsBinary(id) =>
            /\ Len(log[id]) <= MAX_RETRIES
            /\ run[id].attempt <= MAX_RETRIES
            /\ \A i \in 1..(Len(log[id]) - 1) : log[id][i] = "StreamError"
            /\ (run[id].pc \in {"finish", "done"} /\ Len(log[id]) >= 1
                    /\ log[id][Len(log[id])] = "StreamError")
                => Len(log[id]) = MAX_RETRIES
            /\ (run[id].pc = "done" /\ Len(log[id]) = MAX_RETRIES
                    /\ log[id][MAX_RETRIES] = "StreamError")
                => tasks[id].status = "Error"

\* C6: a BinaryStream task makes at most 20 attempts; another attempt follows
\* exactly when the last one failed with StreamError and fewer than 20 were
\* made; after the 20th failed attempt the task ends Error; and every task
\* that started Downloading reaches a terminal status.
C6_BoundedRetriesAndTermination ==
    /\ []C6_RetryPolicy
    /\ \A id \in TaskIds :
        (id \in DOMAIN tasks /\ tasks[id].status = "Downloading")
            ~> (id \in DOMAIN tasks /\ tasks[id].status \in Terminal)

\* the retries of a task were exhausted
C6_Witness ==
    \E id \in DOMAIN tasks :
        /\ Len(log[id]) = MAX_RETRIES
        /\ log[id][MAX_RETRIES] = "StreamError"
        /\ tasks[id].status = "Error"

\* C7: a BinaryStream task that completes over a pre-existing file of length
\* k < total_size leaves the bytes of the resource, whether the server
\* answered 206 or 200.
C7_ResumeCorrect ==
    \A id \in DOMAIN tasks :
        LET c == tasks[id].call
        IN  (/\ IsBinary(id)
             /\ tasks[id].status = "Completed"
             /\ items[c].pre >= 0
             /\ items[c].pre < tasks[id].total_size)
                => files[c].data = Source(items[c].len)

\* C8: downloaded <= total_size in every task record with total_size > 0.
C8_DownloadedWithinTotal ==
    \A id \in DOMAIN tasks :
        tasks[id].total_size > 0 => tasks[id].downloaded <= tasks[id].total_size

\* C9: once the task has started, no step lowers the downloaded of its
\* record: not within an attempt, and not when a retry begins.
C9_DownloadedMonotonic ==
    [][\A id \in DOMAIN tasks :
          run[id].pc \notin {"spawned", "begin"}
              => id \in DOMAIN tasks' /\ tasks'[id].downloaded >= tasks[id].downloaded]_vars

\* a retry attempt has just made the periodic update of the record
C9_Witness ==
    \E id \in DOMAIN tasks :
        /\ run[id].pc = "stream"
        /\ run[id].attempt >= 2
        /\ run[id].chunk_count = PROGRESS_INTERVAL
        /\ tasks[id].downloaded = run[id].downloaded
        /\ tasks[id].downloaded > 0

\* C10: a Completed BinaryStream task with total_size > 0 has
\* downloaded = total_size, also when the file was complete at task start.
C10_CompletedHasAllBytes ==
    \A id \in DOMAIN tasks :
        (IsBinary(id) /\ tasks[id].status = "Completed" /\ tasks[id].total_size > 0)
            => tasks[id].downloaded = tasks[id].total_size

\* C11: the run reports failure (a non-zero exit) exactly when some download
\* task ended in Error or Failed, and a run all of whose tasks ended
\* Completed or Skipped reports success: a run that asked for a download and
\* is over has a non-zero exit exactly if a task is in Error or Failed, and
\* the run is never left waiting on a task that has ended.
C11_ExitReflectsTasks ==
    /\ main.pc = "exited" /\ calls[1].pc # "idle" =>
        (main.exit # 0 <=>
            \E id \in DOMAIN tasks : tasks[id].status \in {"Error", "Failed"})
    /\ main.pc = "poll" =>
        tasks[main.task_id].status \notin {"Error", "Failed", "Skipped"}

\* C12: if the resolve step fails, no download task is ever added to the
\* download core and the run ends with a non-zero exit.
C12_FailedResolveAddsNoTask ==
    main.resolve = "Err" =>
        /\ main.pc = "exited" /\ main.exit # 0
        /\ tasks = <<>>
        /\ \A c \in DOMAIN calls : calls[c].pc = "idle"

\* C12 witness: a run whose resolve step failed is over
C12_Witness == main.resolve = "Err" /\ main.pc = "exited"

\* the code of a JSON root is an integer other than 0
NonZeroCode(code) == code.kind = "big" \/ (code.kind = "int" /\ code.n # 0)

ZeroCode(code) == code.kind = "int" /\ code.n = 0

\* C13 as stated: for any HTTP response whose JSON root carries an integer
\* code different from 0 the result of a typed client operation is
\* ApiError(code, message), never a payload; with code = 0 and a well-formed
\* payload the typed payload is returned unchanged.
C13_EnvelopeOfAnyResponse ==
    http.pc = "done" /\ http.sent /\ http.resp.kind = "json" =>
        LET root == http.resp.root
        IN  /\ NonZeroCode(root.code) =>
                /\ http.result.kind = "ApiError"
                /\ root.code.kind = "int" => http.result.code = root.code.n
                /\ root.message # None => http.result.message = root.message
            /\ ZeroCode(root.code) /\ from_value(http.T, root) =>
                http.result = Payload(root)

\* C13 amended: a response with a status of 500 or more gives RetryLater
\* whatever its body; for a response with a status below 500 whose JSON root
\* carries an integer code different from 0 that fits a signed 64-bit
\* integer, the result is ApiError(code, message), with the message
\* "Unknown error" if the root has no string message; with code = 0 and a
\* well-formed payload (status below 500) the payload is returned unchanged.
C13_Envelope ==
    http.pc = "done" /\ http.sent =>
        LET root == http.resp.root
        IN  /\ http.resp.status >= 500 => http.result = Failure("RetryLater")
            /\ http.resp.status < 500 /\ http.resp.kind = "json" =>
                /\ root.code.kind = "int" /\ root.code.n # 0 =>
                    http.result = ApiError(root.code.n,
                        IF root.message # None THEN root.message[1] ELSE "Unknown error")
                /\ ZeroCode(root.code) /\ from_value(http.T, root) =>
                    http.result = Payload(root)

\* C13 witness: a gzip body with a non-zero code was answered with status
\* 200 and the operation returned the API error
C13_Witness ==
    /\ http.pc = "done" /\ http.sent /\ http.resp.status = 200
    /\ http.resp.kind = "json" /\ http.resp.gzip
    /\ http.resp.root.code = [kind |-> "int", n |-> 62002]
    /\ http.result.kind = "ApiError"

SortedOrder(keys) ==
    CHOOSE o \in Orders(keys) : \A i, j \in DOMAIN o : i < j => StrLess(o[i], o[j])

\* the signed query the signing helper is to give for the stamped, filtered
\* parameters: sorted, with w_rid the hex MD5 of the sorted query and the key
SignedQuery(params, img_key, sub_key, now) ==
    LET stamped == Insert(params, <<"w", "t", "s">>, to_string(now))
        filtered == [k \in DOMAIN stamped |-> FilterValue(stamped[k])]
        q == QueryString(Query(filtered, SortedOrder(DOMAIN filtered)))
        w_rid == Md5Hex(q \o get_mixin_key(img_key, sub_key))
        final == Insert(filtered, <<"w", "_", "r", "i", "d">>, w_rid)
    IN  Query(final, SortedOrder(DOMAIN final))

\* C15: the output of the signing helper is a query string whose keys appear
\* in lexicographic order and are exactly the caller's parameters plus wts
\* and w_rid, where w_rid is the hex MD5 of the sorted, encoded query
\* (without w_rid) concatenated with the mixin key.
C15_SignedQuerySorted ==
    \A n \in DOMAIN wbi.calls :
        LET out == wbi.calls[n].out
            want == SignedQuery(wbi.params, wbi.img_key, wbi.sub_key, wbi.calls[n].now)
        IN  /\ \A i, j \in DOMAIN out : i < j => StrLess(out[i][1], out[j][1])
            /\ {out[i][1] : i \in DOMAIN out} = {encode(k) : k \in FinalKeys(wbi.params)}
            /\ \A i \in DOMAIN out, j \in DOMAIN want :
                out[i][1] = want[j][1] => out[i][2] = want[j][2]

\* C16: signing is deterministic: two calls with the same parameters and
\* keys within the same second give identical signed strings; two calls in
\* different seconds differ only in the values of wts and w_rid.
C16_SigningDeterministic ==
    \A m, n \in DOMAIN wbi.calls :
        LET a == wbi.calls[m]
            b == wbi.calls[n]
        IN  /\ a.now = b.now => QueryString(a.out) = QueryString(b.out)
            /\ a.now # b.now =>
                /\ Len(a.out) = Len(b.out)
                /\ \A i \in DOMAIN a.out :
                    /\ a.out[i][1] = b.out[i][1]
                    /\ a.out[i][1] \notin {<<"w", "t", "s">>, <<"w", "_", "r", "i", "d">>}
                        => a.out[i][2] = b.out[i][2]

\* a token of the range grammar is numeric: decimal digits, at least one
IsNumber(token) == token # <<>> /\ \A i \in DOMAIN token : IsDigit(token[i])

\* an item N-M of the range grammar whose N is greater than its M
StartsAfterEnd(part) ==
    LET range == Split(part, "-")
    IN  /\ Len(range) = 2 /\ IsNumber(range[1]) /\ IsNumber(range[2])
        /\ DigitsValue(range[1]) > DigitsValue(range[2])

\* C17: for every input string the episode-range parser either rejects it or
\* returns a non-empty list that is strictly increasing (hence deduplicated)
\* and whose elements are all at least 1; every item with start > end and
\* every non-numeric token is rejected.
C17_EpisodeRange ==
    parser.pc = "done" /\ parser.op = "range" =>
        LET episodes == parser.range.episodes
            parts == Split(parser.range_str, ",")
        IN  /\ parser.range.ok =>
                /\ episodes # <<>>
                /\ \A i \in 1..(Len(episodes) - 1) : episodes[i] < episodes[i + 1]
                /\ \A i \in DOMAIN episodes : episodes[i] >= 1
            /\ (\E p \in DOMAIN parts : StartsAfterEnd(parts[p])) => ~parser.range.ok
            /\ (\E p \in DOMAIN parts :
                    LET tokens == Split(parts[p], "-")
                    IN  \E t \in DOMAIN tokens : ~IsNumber(tokens[t]))
                => ~parser.range.ok

\* the position the video selector is to return: the first exact match, else
\* the first of the highest ids up to the target, else the first of the lowest
VideoChoice(streams, target) ==
    LET First(S) == CHOOSE i \in S : \A j \in S : i <= j
        exact == {i \in DOMAIN streams : streams[i].id = target}
        below == {i \in DOMAIN streams : streams[i].id <= target}
        best == {i \in below : \A j \in below : streams[j].id <= streams[i].id}
        lowest == {i \in DOMAIN streams :
                      \A j \in DOMAIN streams : streams[i].id <= streams[j].id}
    IN  IF exact # {} THEN First(exact)
        ELSE IF below # {} THEN First(best)
        ELSE First(lowest)

\* the position the audio selector is to return: the first of maximal bandwidth
AudioChoice(streams) ==
    LET loudest == {i \in DOMAIN streams :
                       \A j \in DOMAIN streams : streams[j].bandwidth <= streams[i].bandwidth}
    IN  CHOOSE i \in loudest : \A j \in loudest : i <= j

\* C18: for every non-empty stream list and target the video selector
\* returns the first entry in response order with the target's id, else the
\* first among those with the highest id up to the target, else the first
\* among those with the lowest id; the audio selector returns the first
\* entry among those with maximal bandwidth; an empty list is a failure.
C18_Selectors ==
    parser.pc = "done" /\ parser.op \in {"video", "audio"} =>
        IF parser.streams = <<>> THEN ~parser.selected.ok
        ELSE /\ parser.selected.ok
             /\ parser.op = "video" =>
                    parser.selected.base_url =
                        parser.streams[VideoChoice(parser.streams, parser.resolution)].base_url
             /\ parser.op = "audio" =>
                    parser.selected.base_url =
                        parser.streams[AudioChoice(parser.streams)].base_url

\* C18 witness: no stream has the target's id, two streams share the highest
\* id below it, and the selector returned the earlier of the two
C18_Witness ==
    /\ parser.pc = "done" /\ parser.op = "video" /\ parser.selected.ok
    /\ \A i \in DOMAIN parser.streams : parser.streams[i].id # parser.resolution
    /\ \E i, j \in DOMAIN parser.streams :
        /\ i < j
        /\ parser.streams[i].id = parser.streams[j].id
        /\ parser.streams[i].id < parser.resolution
        /\ \E k \in DOMAIN parser.streams : parser.streams[k].id < parser.streams[i].id
        /\ parser.selected.base_url = parser.streams[i].base_url

\* the work items of a file type in a resolution
ItemsOfType(file_type) ==
    SelectSeq(parser.meta.tasks, LAMBDA t : t.file_type = file_type)

\* C19: every successful clip resolution returns at least one work item, for
\* every combination of the need_* flags and every playback response the
\* resolver accepts.
C19_ResolutionHasItems ==
    parser.pc = "done" /\ parser.op = "meta" /\ parser.meta.ok =>
        Len(parser.meta.tasks) >= 1

\* C20: for any playback response (dash only, durl only, or both) the
\* resolver emits for one episode at most one Video item and at most one
\* Audio item; a response with only durl yields one video item and no Audio
\* item.
C20_OneVideoOneAudio ==
    parser.pc = "done" /\ parser.op = "meta" /\ parser.meta.ok =>
        /\ Len(ItemsOfType("Video")) <= 1
        /\ Len(ItemsOfType("Audio")) <= 1
        /\ parser.resp.data[1].dash = None =>
            /\ Len(ItemsOfType("Video")) = 1
            /\ Len(ItemsOfType("Audio")) = 0

\* C21: for every URL of the form .../video/BV followed by 10 alphanumeric
\* characters (with or without a trailing slash and query string) the
\* classifier returns a Clip whose bvid is the full 12-character identifier
\* including the "BV" prefix and whose aid is absent.
C21_ClipUrlClassified ==
    parser.pc = "done" /\ parser.op = "classify" /\ parser.url \in ClipUrls =>
        LET from == Len(VideoUrlPrefix) + 1
            identifier == SubSeq(parser.url, from, from + 2 + BV_ID_LEN - 1)
        IN  /\ parser.url_type.ok
            /\ parser.url_type.kind = "CommonVideo"
            /\ parser.url_type.bvid = Some(identifier)
            /\ Len(identifier) = 12
            /\ parser.url_type.aid = None

\* C22: session store keys are unique: create_session with an id that is
\* already in the store is rejected and leaves the store, including the jar
\* bound to that id, unchanged.
C22_SessionKeysUnique ==
    auth.pc = "done" /\ auth.op = "create" /\ auth.session_id \in DOMAIN auth.before =>
        /\ ~auth.result.ok
        /\ auth.store.sessions = auth.before
        /\ auth.store.sessions[auth.session_id] = auth.before[auth.session_id]
        /\ auth.store.files = auth.before

\* C22 witness: create_session was called with an id of the store and a
\* client other than the one bound to it, and was rejected
C22_Witness ==
    /\ auth.pc = "done" /\ auth.op = "create"
    /\ auth.session_id \in DOMAIN auth.before
    /\ auth.client # auth.before[auth.session_id]
    /\ ~auth.result.ok

\* C23: the QR-login poll loop issues at most `budget` polls and ends with
\* one outcome, decided by the first poll whose data.code is not 86090 or
\* 86101: 0 gives success and creates exactly one session, 86038 gives
\* QrCodeExpired, any other code gives InvalidResponse; if all `budget` polls
\* return 86090/86101 the outcome is OperationTimeout. No session is created
\* on any outcome other than success.
C23_QrLoginOutcome ==
    auth.op = "qr" =>
        /\ Len(auth.polls) <= auth.budget
        /\ \A i \in 1..(Len(auth.polls) - 1) : Pending(auth.polls[i])
        /\ auth.pc = "polling" => auth.store.sessions = auth.before
        /\ auth.pc = "done" =>
            /\ auth.result # NoResult
            /\ ~auth.result.ok => auth.store.sessions = auth.before
            /\ auth.result.ok =>
                /\ auth.session_id \notin DOMAIN auth.before
                /\ DOMAIN auth.store.sessions = DOMAIN auth.before \cup {auth.session_id}
                /\ \A id \in DOMAIN auth.before : auth.store.sessions[id] = auth.before[id]
            /\ auth.polls # <<>> /\ auth.polls[Len(auth.polls)].kind = "data" =>
                LET code == auth.polls[Len(auth.polls)].code
                IN  /\ code = 0 => auth.result = AuthOk(auth.session_id)
                    /\ code = 86038 => auth.result = AuthErr("QrCodeExpired")
                    /\ code \in {86090, 86101} =>
                        /\ Len(auth.polls) = auth.budget
                        /\ auth.result = AuthErr("OperationTimeout")
                    /\ code \notin {0, 86038, 86090, 86101} =>
                        auth.result = AuthErr("InvalidResponse")
            /\ auth.polls = <<>> =>
                auth.budget = 0 /\ auth.result = AuthErr("OperationTimeout")

\* C24: a task whose HEAD probe returns 404 either succeeds via the ranged
\* GET with a parseable Content-Range, and is then registered with
\* total_size equal to the TOTAL of `Content-Range: bytes X-Y/TOTAL`, or
\* add_task fails; no task is registered from a fallback response whose
\* total size could not be parsed.
C24_FallbackNeedsContentRange ==
    \A c \in DOMAIN calls :
        /\ calls[c].pc = "returned"
        /\ \A h \in items[c].heads : h.status = 404
        => \/ calls[c].result # "Ok" /\ calls[c].task_id \notin DOMAIN tasks
           \/ /\ calls[c].result = "Ok"
              /\ calls[c].size_from = "range"
              /\ tasks[calls[c].task_id].total_size = items[c].len

\* the group of a key that has been processed holds a Video task and an Audio
\* task whose files are both complete
BothCompleted(key) ==
    LET group == post.groups[key]
    IN  /\ \E i \in DOMAIN group :
              group[i].file_type = "Video" /\ group[i].file = "complete"
        /\ \E i \in DOMAIN group :
              group[i].file_type = "Audio" /\ group[i].file = "complete"

\* C25: the post-processor remuxes an episode group exactly when the group
\* holds a Video item and an Audio item that both completed and
\* merge && need_video && need_audio holds, for clip, bangumi and course
\* content alike, and never invokes the remuxer otherwise
C25_RemuxExactlyWhenComplete ==
    post.pc # "off" =>
        \A key \in post.handled :
            key \in post.remuxed
            <=> (BothCompleted(key) /\ post.config.merge
                 /\ post.config.need_video /\ post.config.need_audio)

\* C26: the Video item and the Audio item that the clip resolver emits for one
\* clip are given the same episode key, so they form one episode group and,
\* once both are downloaded, are remuxed to <output_dir>/<title>.mp4
C26_ClipItemsShareKey ==
    (post.pc # "off" /\ post.kind = "CommonVideo") =>
        \A i, j \in DOMAIN post.tasks :
            (post.tasks[i].file_type = "Video" /\ post.tasks[j].file_type = "Audio")
            => extract_episode_key(post.tasks[i].name)
               = extract_episode_key(post.tasks[j].name)

\* C27: at the beginning of every attempt of a BinaryStream task, start
\* equals the current length of the destination file (0 if absent); the
\* request carries Range: bytes=<start>- exactly when start > 0 or the item
\* is Audio; and the destination is opened for append exactly when
\* start > 0, otherwise created or truncated
C27_AttemptStart ==
    \A id \in DOMAIN tasks :
        LET r == run[id]
            c == tasks[id].call
        IN  /\ r.pc = "request" => r.start_pos = FileLen(c)
            /\ r.pc = "stream" =>
                /\ (r.range >= 0) <=> (r.start_pos > 0 \/ r.file_type = "Audio")
                /\ r.range >= 0 => r.range = r.start_pos
                /\ r.append <=> r.start_pos > 0
                /\ files[c].exists
                /\ Len(files[c].data)
                   = (IF r.append THEN r.start_pos ELSE 0) + (r.downloaded - r.start_pos)

\* a retry that resumes: a later attempt is streaming, with a Range header at
\* the bytes on disk and the file opened for append
C27_Witness ==
    \E id \in DOMAIN tasks :
        /\ run[id].pc = "stream"
        /\ run[id].attempt >= 2
        /\ run[id].start_pos > 0
        /\ run[id].range = run[id].start_pos
        /\ run[id].append
\* the stream of the attempt of task id ends cleanly (None) with fewer bytes
\* counted than total_size
CleanShortEnd(id) ==
    /\ StreamEnd(id)
    /\ tasks[id].total_size > 0
    /\ run[id].downloaded < tasks[id].total_size

\* a Completed BinaryStream task of known size that made an attempt counted
\* at least total_size bytes
CompletedIsWhole ==
    \A id \in DOMAIN tasks :
        (/\ tasks[id].status = "Completed"
         /\ for_file_type(run[id].file_type) = "BinaryStream"
         /\ tasks[id].total_size > 0
         /\ log[id] # <<>>)
        => tasks[id].downloaded >= tasks[id].total_size

\* C28 as stated: an attempt whose stream ends cleanly with
\* downloaded < total_size (total_size > 0) is a failed attempt reported as
\* StreamError and is never reported as success; hence a task never becomes
\* Completed through an attempt that delivered fewer bytes than total_size
C28_ShortEndIsStreamError ==
    /\ [][\A id \in DOMAIN tasks :
             CleanShortEnd(id) => run'[id].result = "StreamError"]_vars
    /\ []CompletedIsWhole

\* C28, amended: such an attempt is a failed attempt, reported as StreamError
\* or, when the final flush of the file fails, as IoError, and is never
\* reported as success; hence a task never becomes Completed through an
\* attempt that delivered fewer bytes than total_size
C28_ShortEndFails ==
    /\ [][\A id \in DOMAIN tasks :
             CleanShortEnd(id) => run'[id].result \in {"StreamError", "IoError"}]_vars
    /\ []CompletedIsWhole

\* an attempt that wrote bytes has just ended short of total_size, was
\* flushed and recorded, and is reported as StreamError
C28_Witness ==
    \E id \in DOMAIN tasks :
        /\ run[id].pc = "matched"
        /\ run[id].result = "StreamError"
        /\ tasks[id].total_size > 0
        /\ run[id].downloaded < tasks[id].total_size
        /\ run[id].downloaded > run[id].start_pos
        /\ tasks[id].downloaded = run[id].downloaded
\* the download of task id ended because its retries were exhausted: the
\* last of MAX_RETRIES attempts failed with StreamError
RetriesExhausted(id) ==
    run[id].ret = "StreamError" /\ Len(log[id]) >= MAX_RETRIES

\* C29: a task whose download ends with a non-recoverable error (one that is
\* neither RateLimited nor exhaustion of the retry cap) ends in status
\* Failed; status Error is entered only when retries are exhausted
C29_NonRecoverableIsFailed ==
    \A id \in DOMAIN tasks :
        run[id].pc = "done" =>
            /\ (run[id].ret \notin {"Ok", "RateLimited"} /\ ~RetriesExhausted(id))
               => tasks[id].status = "Failed"
            /\ tasks[id].status = "Error" => RetriesExhausted(id)
\* C30: when a metadata or playurl response carries a non-zero envelope
\* code, the failure of the resolver is the code-specific kind with its hint
\* (-10403 a paid/VIP resource, -403 an access-denied explanation), not a
\* generic network error
C30_EnvelopeCodeIsSpecific ==
    (/\ http.pc = "resolved"
     /\ http.sent
     /\ http.resp.status < 500
     /\ http.resp.kind = "json"
     /\ http.resp.root.code.kind = "int"
     /\ http.resp.root.code.n # 0)
    => /\ http.failure.kind = "ParseError"
       /\ http.failure.code = http.resp.root.code.n

\* the episodes that the parts option selects: the positions of the array
\* that the range lists
SeasonPositions ==
    IF parser.season = None \/ parser.range = None THEN {}
    ELSE LET listed == parse_episode_range(parser.range[1]).episodes
         IN  {n \in DOMAIN parser.season[1] : \E i \in DOMAIN listed : listed[i] = n}

\* the episodes for which the resolve returned metadata
EmittedEpisodes ==
    {parser.result.metas[i].episode : i \in DOMAIN parser.result.metas}

SeasonWithParts ==
    /\ parser.pc = "done"
    /\ parser.kind \in {"CourseSeason", "BangumiSeason"}
    /\ SeasonPositions # {}

\* C31: a season resolved with parts, each selected episode answering with
\* DASH, yields a video and an audio item for exactly the episodes at the
\* listed 1-based positions of the episodes array, whatever their platform ids
C31_PartsSelectByPosition ==
    (SeasonWithParts /\ \A n \in SeasonPositions : parser.plays[n] = "dash")
        => /\ parser.result.ok
           /\ EmittedEpisodes = SeasonPositions
           /\ \A i \in DOMAIN parser.result.metas :
                parser.result.metas[i].items = {"Video", "Audio"}

\* C32: a season resolve omits the selected episodes whose playurl request
\* failed, returns the others, and fails only when none of them succeeded
C32_BadEpisodeIsSkipped ==
    SeasonWithParts
        => LET good == {n \in SeasonPositions : parser.plays[n] \in {"dash", "durl"}}
           IN  /\ parser.result.ok <=> good # {}
               /\ parser.result.ok => EmittedEpisodes = good

\* C33: a clip whose view answer carries redirect_url fails with
\* Redirect(url) of that URL, without a playurl request and without work items
C33_RedirectIsDistinctFailure ==
    (/\ parser.pc = "done"
     /\ parser.view.kind = "Ok" /\ parser.view.code = 0
     /\ parser.view.data # None
     /\ parser.view.data[1].redirect_url # None)
        => /\ ~parser.result.ok
           /\ parser.result.kind = "Redirect"
           /\ parser.result.url = parser.view.data[1].redirect_url
           /\ parser.result.requests = 0
           /\ parser.result.download_items = <<>>

\* the move has returned Ok
Moved == post.pc = "moved" /\ post.result = "Ok"

\* what a finished move left: no file that existed was overwritten or lost,
\* the target is the plain name if that was free and otherwise the
\* candidate of the smallest counter from 1 that was free, and the file is
\* at the target and no longer at the source
MoveIsCollisionFree ==
    Moved =>
        /\ OutputPath(post.final_target) \notin DOMAIN post.before
        /\ \A p \in DOMAIN post.before \ {post.source} :
            p \in DOMAIN post.fs /\ post.fs[p] = post.before[p]
        /\ IF OutputPath(post.target) \notin DOMAIN post.before
           THEN post.final_target = post.target
           ELSE \E n \in 1..(Cardinality(DOMAIN post.before) + 1) :
                  /\ post.final_target = new_path(post.target, n)
                  /\ \A m \in 1..(n - 1) :
                       OutputPath(new_path(post.target, m)) \in DOMAIN post.before
        /\ OutputPath(post.final_target) \in DOMAIN post.fs
        /\ post.fs[OutputPath(post.final_target)] = post.before[post.source]
        /\ post.source \notin DOMAIN post.fs

\* C34: a move never overwrites an existing file: the target is the plain
\* name if free, otherwise the name with the smallest free counter from 1;
\* the search ends, and after a successful move the file is at the target
\* and no longer at the source
C34_MoveNeverOverwrites == []MoveIsCollisionFree /\ <>(post.pc = "moved")

\* a move that found the plain name and the first candidate taken
C34_Witness == Moved /\ post.counter >= 2

\* C35: the semaphore of the download pool has the size that the user
\* configured with the concurrency option
C35_SemaphoreIsConfigured ==
    main.pc \in {"add", "probe", "poll"} => max_concurrent = main.concurrency

\* the add_task call c returns in this step
AddTaskReturns(c) == calls[c].pc = "acquired" /\ calls'[c].pc = "returned"

\* C36: an add_task that returns an error leaves the task table as it was
\* and spawns no runner; one that returns a task id has inserted exactly one
\* record, with that id, Queued and with downloaded = 0, and has spawned
\* exactly one runner, for that id
C36_AddTaskFrame ==
    [][\A c \in DOMAIN calls :
        AddTaskReturns(c) =>
            IF calls'[c].result = "Ok"
            THEN LET id == calls'[c].task_id
                 IN  /\ id \notin DOMAIN tasks /\ id \notin DOMAIN run
                     /\ DOMAIN tasks' = DOMAIN tasks \cup {id}
                     /\ \A i \in DOMAIN tasks : tasks'[i] = tasks[i]
                     /\ tasks'[id].status = "Queued"
                     /\ tasks'[id].downloaded = 0
                     /\ DOMAIN run' = DOMAIN run \cup {id}
                     /\ \A i \in DOMAIN run : run'[i] = run[i]
                     /\ run'[id].pc = "spawned"
            ELSE tasks' = tasks /\ run' = run]_vars

\* one call has returned a task id and another one an error for the same
\* uuid, while the task of the first is running
C36_Witness ==
    \E c, d \in DOMAIN calls :
        /\ calls[c].pc = "returned" /\ calls[c].result = "Ok"
        /\ calls[d].pc = "returned" /\ calls[d].result = "TaskAlreadyExists"
        /\ tasks[calls[c].task_id].status = "Downloading"

\* the add_task calls that hold a permit: between acquire and return
Acquired == {c \in DOMAIN calls : calls[c].pc = "acquired"}

\* C37: at most max_concurrent add_task calls are between acquiring the
\* semaphore and returning, and the permit of a call is released when it
\* returns, with a task id or with an error: every waiting call goes on to
\* acquire and to return
C37_PermitsNeverLeak ==
    /\ [](Cardinality(Acquired) <= max_concurrent)
    /\ \A c \in 1..MaxTasks : calls[c].pc = "idle" ~> calls[c].pc = "returned"

\* the only permit is held by a call that had to wait for it, after the
\* call that held it before returned an error
C37_Witness ==
    /\ max_concurrent = 1
    /\ Acquired # {}
    /\ \E c \in DOMAIN calls : calls[c].pc = "returned" /\ calls[c].result # "Ok"

\* C38: download_file returns once its task has reached a terminal status,
\* whichever it is: when the task that it polls has ended, its loop can be left
C38_WaitEndsOnTerminal ==
    (main.pc = "poll" /\ tasks[main.task_id].status \in Terminal)
        => ENABLED DownloadFilePoll

\* C39: for every accepted input, a canonical URL or a bare id, the options
\* that main builds are those of the resolver that the dispatch selects for
\* the classified kind: no resolve fails with an invalid-options error
C39_OptionsMatchResolver ==
    (parser.pc = "done" /\ parser.resolver # None)
        => parser.options = parser.resolver[1] /\ parser.result # "InvalidOptions"

\* C40: create_session is atomic with respect to the store: when it returns
\* an error (the id is in the store, or the jar could not be written under
\* ./sessions) the store holds exactly the entries it held before the call,
\* and when it returns Ok the store holds the new id bound to the jar of
\* the given client
C40_CreateSessionAtomic ==
    (auth.pc = "done" /\ auth.op = "create") =>
        IF auth.result.ok
        THEN /\ auth.session_id \in DOMAIN auth.store.sessions
             /\ auth.store.sessions[auth.session_id] = auth.client
        ELSE auth.store.sessions = auth.before

====
